---- MODULE Spec2Model ----
(***************************************************************************)
(* A model of joblib's vendored cloudpickle reducers                       *)
(* (src/joblib/externals/cloudpickle/cloudpickle.py):                      *)
(*   - the dynamic class tracker (two weak maps) and the skeleton          *)
(*     constructors _make_skeleton_class / _make_skeleton_enum,            *)
(*     sequentially (Spec) and with two threads interleaved line by line   *)
(*     (SpecThreads);                                                      *)
(*   - the class reducer _dynamic_class_reduce and its reconstruction;     *)
(*   - the by-value module set and the reference resolver                   *)
(*     _should_pickle_by_reference (SpecPolicy, SpecDecide), the module     *)
(*     scan of _whichmodule (SpecWhich);                                   *)
(*   - the cell, function and stream reducers and _function_setstate       *)
(*     (SpecEncode, SpecFile), the override hook in dump (SpecSave);       *)
(* and of loky's context module (src/joblib/externals/loky/backend/        *)
(* context.py): cpu_count and get_context (SpecContext).                   *)
(* Python's None is the string "None" for ids, names and module names and  *)
(* the object number 0 for "no object".  Leading underscores of the source *)
(* names are dropped.                                                      *)
(***************************************************************************)
EXTENDS Integers, Sequences, FiniteSets, TLC

VARIABLES
    \* ---- identity tracker (cloudpickle.py:78-79) and the objects it tracks
    DYNAMIC_CLASS_TRACKER_BY_ID,     \* WeakValueDictionary: tracking id -> class object
    DYNAMIC_CLASS_TRACKER_BY_CLASS,  \* WeakKeyDictionary: class object -> tracking id
    heap,          \* the live class objects: object number -> class record
    nextObj,       \* the next fresh object number (object identities are never reused)
    lastCall,      \* history: the last skeleton call, its arguments and its outcome
    returned,      \* history: tracking id -> live objects skeleton calls returned for it
    lastReduce,    \* history: the last _dynamic_class_reduce call and its descriptor
    \* ---- two threads inside the skeleton constructors (SpecThreads)
    pc,            \* thread -> the line the thread is at
    targs,         \* thread -> the arguments of its call
    tcls,          \* thread -> its local variable cls (0: unset)
    tresult,       \* thread -> how its last call ended and the object it returned
    \* ---- by-value policy set and reference resolver
    PICKLE_BY_VALUE_MODULES,  \* cloudpickle.py:77
    sys_modules,   \* the module table: module name -> module record
    registered,    \* history: modules registered and not unregistered since
    lastPolicy,    \* history: the last register/unregister call
    prevPolicy,    \* history: the call before it
    lastDecide,    \* history: the last resolver / reducer call and its result
    \* ---- an open text stream given to _file_reduce (cloudpickle.py:419-429)
    stream,        \* its mode, closed flag, content and read position
    \* ---- loky's context module (loky/backend/context.py)
    DEFAULT_START_METHOD,  \* the module global, context.py:20
    physical_cores_cache,  \* the module global, context.py:21
    lastCtx,       \* history: the last cpu_count / get_context call and its outcome
    \* ---- one object on its way through Pickler.dump
    saving,        \* the object, the step reached and what was consulted so far
    \* ---- a z-file and its handle (numpy_pickle_compat.py)
    zfile,         \* the bytes of the file and the position of the handle
    lastZ,         \* history: the last write_zfile / read_zfile call
    \* ---- joblib.hashing and joblib.func_inspect
    lastHash,      \* history: the last pair of hash() calls and their digests
    lastFilter,    \* history: the last filter_args call and its outcome
    \* ---- the global-binding memo (cloudpickle.py:85)
    extract_code_globals_cache,  \* WeakKeyDictionary: code object -> names
    extract_frames,  \* the frames of the _extract_code_globals call under way
    lastExtract,   \* history: the last _extract_code_globals call
    \* ---- loky's pickler selection (loky/backend/reduction.py:54-55)
    LokyPickler,   \* the module global _LokyPickler
    loky_pickler_name,  \* the module global _loky_pickler_name
    ENV_LOKY_PICKLER,   \* the module global ENV_LOKY_PICKLER
    lastPickler    \* history: the last set_loky_pickler call

trackerVars == <<DYNAMIC_CLASS_TRACKER_BY_ID, DYNAMIC_CLASS_TRACKER_BY_CLASS, heap,
                 nextObj, lastCall, returned, lastReduce>>
threadVars == <<pc, targs, tcls, tresult>>
policyVars == <<PICKLE_BY_VALUE_MODULES, sys_modules, registered, lastPolicy,
                prevPolicy, lastDecide>>
streamVars == <<stream>>
contextVars == <<DEFAULT_START_METHOD, physical_cores_cache, lastCtx>>
saveVars == <<saving>>
zVars == <<zfile, lastZ>>
hashVars == <<lastHash>>
filterVars == <<lastFilter>>
extractVars == <<extract_code_globals_cache, extract_frames, lastExtract>>
picklerVars == <<LokyPickler, loky_pickler_name, ENV_LOKY_PICKLER, lastPickler>>
moreVars == <<zVars, hashVars, filterVars, extractVars, picklerVars>>
otherVars == <<streamVars, contextVars, saveVars, moreVars>>
vars == <<trackerVars, threadVars, policyVars, otherVars>>

\* ------------------------------------------------------------------ bounds
MaxObjects == 3

\* ------------------------------------------------------- finite maps (dicts)
Put(map, k, v) == [x \in DOMAIN map \cup {k} |-> IF x = k THEN v ELSE map[x]]
Drop(map, ks) == [x \in DOMAIN map \ ks |-> map[x]]
EmptyMap == [x \in {} |-> 0]

\* --------------------------------------------------------------- the inputs
TrackerIds == {"id1", "id2"}
ClassNames == {"A", "B"}
EnumBases == {<<"Enum">>}
EnumMembers == {<< >>, <<"x">>}
\* The __dict__ of the classes a class of the model may inherit from.
StaticClassDict(base) ==
    IF base = "Base" THEN [n \in {"inh"} |-> "Base.inh"] ELSE EmptyMap
\* ------------------------------------------------------------ class objects
\* A class record: what the model keeps of a type object.  clsdict is the
\* user-visible body (methods, attributes); __module__ and __qualname__ are
\* fields of their own.
ClassRecord(kind, meta, name, qualname, module, bases, clsdict) ==
    [kind |-> kind, meta |-> meta, name |-> name, qualname |-> qualname,
     module |-> module, bases |-> bases, clsdict |-> clsdict]

\* The arguments of a skeleton call.  For _make_skeleton_class, type_kwargs is
\* {"__module__": module, "__qualname__": qualname} and members is unused.
SkeletonArgs(kind, type_constructor, name, qualname, module, bases, members, id) ==
    [kind |-> kind, type_constructor |-> type_constructor, name |-> name,
     qualname |-> qualname, module |-> module, bases |-> bases,
     members |-> members, class_tracker_id |-> id]

\* The classes the program may define locally: each has a method m that returns
\* the class; the first two also hold an attribute that is the identical object
\* of Base's __dict__, under one base and under two.
LocalClasses ==
    { ClassRecord("class", "type", "A", "A", "__main__", <<"Base">>,
                  [n \in {"m", "inh"} |-> IF n = "m" THEN "returns_cls" ELSE "Base.inh"]),
      ClassRecord("class", "type", "A", "A", "__main__", <<"Base", "Mixin">>,
                  [n \in {"m", "inh"} |-> IF n = "m" THEN "returns_cls" ELSE "Base.inh"]),
      ClassRecord("class", "type", "B", "B", "__main__", <<"object">>,
                  [n \in {"m"} |-> "returns_cls"]) }

NoArgs == SkeletonArgs("none", "None", "None", "None", "None", << >>, << >>, "None")

\* What another process may send to _make_skeleton_class.
RemoteClassArgs ==
    { SkeletonArgs("class", "type", n, n, "__main__", b, << >>, i) :
        n \in ClassNames, b \in {<<"object">>},
        i \in TrackerIds \cup {"None"} }
\* What another process may send to _make_skeleton_enum.
RemoteEnumArgs ==
    { SkeletonArgs("enum", "EnumMeta", n, n, "__main__", b, m, i) :
        n \in {"A"}, b \in EnumBases, m \in EnumMembers,
        i \in TrackerIds \cup {"None"} }

\* cloudpickle.py:329-330 and 366-367: the lookup of the tracking id.
SkeletonFoundNever(args) == FALSE
SkeletonFoundSameShape(args) ==
    /\ args.class_tracker_id # "None"
    /\ args.class_tracker_id \in DOMAIN DYNAMIC_CLASS_TRACKER_BY_ID
    /\ LET r == heap[DYNAMIC_CLASS_TRACKER_BY_ID[args.class_tracker_id]]
       IN  r.kind = args.kind /\ r.name = args.name /\ r.bases = args.bases
SkeletonFound(args) ==
    /\ args.class_tracker_id # "None"
    /\ args.class_tracker_id \in DOMAIN DYNAMIC_CLASS_TRACKER_BY_ID

\* cloudpickle.py:335-344: the new class, built by the local metaclass Meta
\* (type_constructor is not used) with type_kwargs as its whole body.
NewSkeletonClass(args) ==
    ClassRecord("class", "Meta", args.name, args.qualname, args.module,
                args.bases, EmptyMap)

\* cloudpickle.py:343: Meta(name, bases, clsdict) with a base whose metaclass
\* is EnumMeta raises "TypeError: metaclass conflict", Meta being a plain
\* subclass of type.
MetaclassConflict(args) == \E i \in 1..Len(args.bases) : args.bases[i] = "Enum"

\* cloudpickle.py:370-376: the new enum class, member-less.
NewSkeletonEnum(args) ==
    ClassRecord("enum", "EnumMeta", args.name, args.qualname, args.module,
                args.bases, EmptyMap)

\* cloudpickle.py:379-384: the member loop.  _member_type_.__new__(
\* _member_type_, member_name) or the assignment of _name_ raises for every
\* member (object() takes no arguments; a plain int or str has no _name_), so
\* the loop completes only over an empty member list.
EnumMembersRaise(args) == Len(args.members) > 0

\* The registry entry of a tracking id before a call (0: none).
RegisteredUnder(id) ==
    IF id # "None" /\ id \in DOMAIN DYNAMIC_CLASS_TRACKER_BY_ID
    THEN DYNAMIC_CLASS_TRACKER_BY_ID[id] ELSE 0

RecordOf(obj) == IF obj \in DOMAIN heap THEN heap[obj] ELSE NoArgs

\* Whether a step left both maps of the registry as they were.
RegistrySame ==
    /\ DYNAMIC_CLASS_TRACKER_BY_ID' = DYNAMIC_CLASS_TRACKER_BY_ID
    /\ DYNAMIC_CLASS_TRACKER_BY_CLASS' = DYNAMIC_CLASS_TRACKER_BY_CLASS

\* History kept of a skeleton call: the class whose descriptor is being loaded
\* and the body _dynamic_class_reduce extracted from it (0 and empty for a
\* descriptor of another process), the objects earlier calls returned for the
\* same id that are alive as the call starts, the entry the id had, the result.
CallRecord(args, src, dict_items, result, built, outcome, regSame) ==
    [op |-> args.kind, args |-> args, src |-> src, dict_items |-> dict_items,
     prior |-> IF args.class_tracker_id = "None" THEN {}
               ELSE returned[args.class_tracker_id] \cap DOMAIN heap,
     regBefore |-> RegisteredUnder(args.class_tracker_id),
     regBeforeRec |-> RecordOf(RegisteredUnder(args.class_tracker_id)),
     result |-> result, built |-> built, outcome |-> outcome, regSame |-> regSame]

NoCall ==
    [op |-> "none", args |-> NoArgs, src |-> 0, dict_items |-> EmptyMap, prior |-> {}, regBefore |-> 0,
     regBeforeRec |-> NoArgs, result |-> 0, built |-> FALSE, outcome |-> "none",
     regSame |-> TRUE]

NoteReturned(id, obj) ==
    IF id = "None" THEN returned
    ELSE [returned EXCEPT ![id] = @ \cup {obj}]

\* cloudpickle.py:346-348 and 386-388: track the new class under its id.
TrackById(id, obj) ==
    IF id # "None" THEN Put(DYNAMIC_CLASS_TRACKER_BY_ID, id, obj)
    ELSE DYNAMIC_CLASS_TRACKER_BY_ID
TrackByClass(id, obj) ==
    IF id # "None" THEN Put(DYNAMIC_CLASS_TRACKER_BY_CLASS, obj, id)
    ELSE DYNAMIC_CLASS_TRACKER_BY_CLASS

\* _make_skeleton_class(type_constructor, name, bases, type_kwargs,
\*                      class_tracker_id, extra), cloudpickle.py:318-350.
make_skeleton_class(args, src, dict_items) ==
    IF SkeletonFound(args)
    THEN /\ UNCHANGED <<DYNAMIC_CLASS_TRACKER_BY_ID, DYNAMIC_CLASS_TRACKER_BY_CLASS,
                        heap, nextObj>>
         /\ lastCall' = CallRecord(args, src, dict_items, DYNAMIC_CLASS_TRACKER_BY_ID[args.class_tracker_id],
                                   FALSE, "return", RegistrySame)
         /\ returned' = NoteReturned(args.class_tracker_id,
                                     DYNAMIC_CLASS_TRACKER_BY_ID[args.class_tracker_id])
    ELSE IF MetaclassConflict(args)
    THEN \* Meta(name, bases, clsdict) raises TypeError: nothing is built or tracked
         /\ UNCHANGED <<DYNAMIC_CLASS_TRACKER_BY_ID, DYNAMIC_CLASS_TRACKER_BY_CLASS,
                        heap, nextObj, returned>>
         /\ lastCall' = CallRecord(args, src, dict_items, 0, FALSE, "raise", RegistrySame)
    ELSE /\ nextObj <= MaxObjects
         /\ heap' = Put(heap, nextObj, NewSkeletonClass(args))
         /\ nextObj' = nextObj + 1
         /\ DYNAMIC_CLASS_TRACKER_BY_ID' = TrackById(args.class_tracker_id, nextObj)
         /\ DYNAMIC_CLASS_TRACKER_BY_CLASS' = TrackByClass(args.class_tracker_id, nextObj)
         /\ lastCall' = CallRecord(args, src, dict_items, nextObj, TRUE, "return", RegistrySame)
         /\ returned' = NoteReturned(args.class_tracker_id, nextObj)

\* _make_skeleton_enum(bases, name, qualname, members, module,
\*                     class_tracker_id, extra), cloudpickle.py:352-390.
make_skeleton_enum(args, src, dict_items) ==
    IF SkeletonFound(args)
    THEN /\ UNCHANGED <<DYNAMIC_CLASS_TRACKER_BY_ID, DYNAMIC_CLASS_TRACKER_BY_CLASS,
                        heap, nextObj>>
         /\ lastCall' = CallRecord(args, src, dict_items, DYNAMIC_CLASS_TRACKER_BY_ID[args.class_tracker_id],
                                   FALSE, "return", RegistrySame)
         /\ returned' = NoteReturned(args.class_tracker_id,
                                     DYNAMIC_CLASS_TRACKER_BY_ID[args.class_tracker_id])
    ELSE IF EnumMembersRaise(args)
    THEN \* the enum class was built and is dropped when the exception unwinds
         /\ UNCHANGED <<DYNAMIC_CLASS_TRACKER_BY_ID, DYNAMIC_CLASS_TRACKER_BY_CLASS,
                        heap, nextObj, returned>>
         /\ lastCall' = CallRecord(args, src, dict_items, 0, TRUE, "raise", RegistrySame)
    ELSE /\ nextObj <= MaxObjects
         /\ heap' = Put(heap, nextObj, NewSkeletonEnum(args))
         /\ nextObj' = nextObj + 1
         /\ DYNAMIC_CLASS_TRACKER_BY_ID' = TrackById(args.class_tracker_id, nextObj)
         /\ DYNAMIC_CLASS_TRACKER_BY_CLASS' = TrackByClass(args.class_tracker_id, nextObj)
         /\ lastCall' = CallRecord(args, src, dict_items, nextObj, TRUE, "return", RegistrySame)
         /\ returned' = NoteReturned(args.class_tracker_id, nextObj)

\* _extract_class_dict(cls), cloudpickle.py:278-286.
extract_class_dict(cls) ==
    LET clsdict == heap[cls].clsdict
        bases == heap[cls].bases
        inherited_dict == IF Len(bases) = 1 THEN StaticClassDict(bases[1]) ELSE EmptyMap
        popped == { n \in DOMAIN inherited_dict :
                      n \in DOMAIN clsdict /\ clsdict[n] = inherited_dict[n] }
    IN  Drop(clsdict, popped)

\* cloudpickle.py:460: _DYNAMIC_CLASS_TRACKER_BY_CLASS.get(obj).
TrackerIdOf(obj) ==
    IF obj \in DOMAIN DYNAMIC_CLASS_TRACKER_BY_CLASS
    THEN DYNAMIC_CLASS_TRACKER_BY_CLASS[obj] ELSE "None"

\* _dynamic_class_reduce(obj), cloudpickle.py:431-470, for a class object of
\* the heap (never type(None)), an enum class included since no line tells
\* the two apart: the descriptor is the pair (constructor, arguments) with
\* type(obj) as type_constructor; dict_items (line 451) is computed and is no
\* part of it.
dynamic_class_reduce(obj) ==
    [constructor |-> "_make_skeleton_class",
     args |-> SkeletonArgs("class", heap[obj].meta, heap[obj].name, heap[obj].qualname,
                           heap[obj].module, heap[obj].bases, << >>, TrackerIdOf(obj)),
     state |-> "absent", setstate |-> "absent"]

NoReduce ==
    [op |-> "none", obj |-> 0, descriptor |-> [constructor |-> "none", args |-> NoArgs,
     state |-> "absent", setstate |-> "absent"], dict_items |-> EmptyMap]

\* ------------------------------------------------- the sequential process
TrackerInit ==
    /\ DYNAMIC_CLASS_TRACKER_BY_ID = EmptyMap
    /\ DYNAMIC_CLASS_TRACKER_BY_CLASS = EmptyMap
    /\ heap = EmptyMap
    /\ nextObj = 1
    /\ lastCall = NoCall
    /\ returned = [i \in TrackerIds |-> {}]
    /\ lastReduce = NoReduce

\* The program defines a class in a function body or interactively.
DefineClass ==
    \E c \in LocalClasses :
        /\ nextObj <= MaxObjects
        /\ heap' = Put(heap, nextObj, c)
        /\ nextObj' = nextObj + 1
        /\ UNCHANGED <<DYNAMIC_CLASS_TRACKER_BY_ID, DYNAMIC_CLASS_TRACKER_BY_CLASS,
                       lastCall, returned, lastReduce>>
        /\ UNCHANGED <<threadVars, policyVars, otherVars>>

\* A serialization of a live dynamic class, enum or not.
DynamicClassReduce ==
    \E obj \in DOMAIN heap :
        /\ lastReduce' = [op |-> "reduce", obj |-> obj,
                          descriptor |-> dynamic_class_reduce(obj),
                          dict_items |-> extract_class_dict(obj)]
        /\ UNCHANGED <<DYNAMIC_CLASS_TRACKER_BY_ID, DYNAMIC_CLASS_TRACKER_BY_CLASS,
                       heap, nextObj, lastCall, returned>>
        /\ UNCHANGED <<threadVars, policyVars, otherVars>>

\* The backend's load of the last descriptor: constructor(*args), and no
\* restore procedure since the descriptor carries none.
Loads ==
    /\ lastReduce.op = "reduce"
    /\ make_skeleton_class(lastReduce.descriptor.args, lastReduce.obj,
                           lastReduce.dict_items)
    /\ UNCHANGED lastReduce
    /\ UNCHANGED <<threadVars, policyVars, otherVars>>

\* A descriptor of another process arrives: a whole call of
\* _make_skeleton_class or _make_skeleton_enum, with no collection and no
\* other call between its lines (SpecThreads has the lines apart).
RemoteSkeletonClass ==
    \E args \in RemoteClassArgs :
        /\ make_skeleton_class(args, 0, EmptyMap)
        /\ UNCHANGED lastReduce
        /\ UNCHANGED <<threadVars, policyVars, otherVars>>

RemoteSkeletonEnum ==
    \E args \in RemoteEnumArgs :
        /\ make_skeleton_enum(args, 0, EmptyMap)
        /\ UNCHANGED lastReduce
        /\ UNCHANGED <<threadVars, policyVars, otherVars>>

\* The last strong reference to a class goes and the class is collected: the
\* weak maps drop its entries (weakref callbacks of both dictionaries).
CollectById(obj) ==
    Drop(DYNAMIC_CLASS_TRACKER_BY_ID,
         { i \in DOMAIN DYNAMIC_CLASS_TRACKER_BY_ID : DYNAMIC_CLASS_TRACKER_BY_ID[i] = obj })
CollectByClass(obj) == Drop(DYNAMIC_CLASS_TRACKER_BY_CLASS, {obj})

GarbageCollect ==
    \E obj \in DOMAIN heap :
        /\ heap' = Drop(heap, {obj})
        /\ DYNAMIC_CLASS_TRACKER_BY_ID' = CollectById(obj)
        /\ DYNAMIC_CLASS_TRACKER_BY_CLASS' = CollectByClass(obj)
        /\ returned' = [i \in TrackerIds |-> returned[i] \ {obj}]
        /\ UNCHANGED <<nextObj, lastCall, lastReduce>>
        /\ UNCHANGED <<threadVars, policyVars, otherVars>>

\* The variables of the other parts, at rest.
Threads == {"t1", "t2"}
NoResult == [outcome |-> "none", obj |-> 0]
ThreadsIdle ==
    /\ pc = [t \in Threads |-> "idle"]
    /\ targs = [t \in Threads |-> NoArgs]
    /\ tcls = [t \in Threads |-> 0]
    /\ tresult = [t \in Threads |-> NoResult]

\* ------------------------------------- module table, objects, the resolver
\* A module-table entry is "None" (sys.modules[name] is None), "regular" (a
\* module with a __file__ path), "nofile" (a module without the attribute
\* __file__) or "filenone" (a module whose __file__ is None); a name outside
\* the domain of sys_modules is not in the table.  builtins is always loaded
\* and has no __file__.
ModuleNames == {"__main__", "ns", "pkg"}
ModuleKinds == {"None", "regular", "nofile", "filenone"}
\* The order in which list(sys.modules.items()) yields the names.
ModuleOrder == <<"builtins", "__main__", "ns", "pkg">>
ModuleTables ==
    { [n \in {"builtins", "__main__"} \cup loaded |->
          IF n = "builtins" THEN "nofile"
          ELSE IF n = "__main__" THEN main ELSE rest[n]] :
        loaded \in SUBSET {"ns", "pkg"},
        main \in {"regular", "nofile"},
        rest \in [{"ns", "pkg"} -> ModuleKinds] }

\* What the resolver and the reducers read of an object: kind "class" (an
\* instance of type), "function" (a types.FunctionType) or "other"; its
\* __name__ and __module__ ("None": absent or None); the modules whose lookup of
\* the name yields the very object and those whose lookup raises; the flag
\* _is_coroutine; for a class, whether it is type(None), type(Ellipsis),
\* type(NotImplemented) or a key of _BUILTIN_TYPE_NAMES.
Obj(kind, name, module, exposed_by, raising_in, is_coroutine, special) ==
    [kind |-> kind, name |-> name, module |-> module, exposed_by |-> exposed_by,
     raising_in |-> raising_in, is_coroutine |-> is_coroutine, special |-> special]

Objects ==
    { Obj(k, "f", m, {}, {}, FALSE, "none") :
        k \in {"class", "function"}, m \in {"__main__", "pkg", "ns", "gone"} }
    \cup { Obj("function", "f", m, {}, {}, TRUE, "none") : m \in {"__main__", "pkg"} }
    \cup { Obj("other", "None", "pkg", {}, {}, FALSE, "none") }
    \cup { Obj(k, "f", "None", e, r, FALSE, "none") :
             k \in {"function", "other"},
             e \in {{}, {"pkg"}, {"ns", "pkg"}, {"__main__"}},
             r \in {{}, {"ns"}} }
    \cup { Obj("class", "f", "builtins", {}, {}, FALSE, sp) :
             sp \in {"NoneType", "EllipsisType", "NotImplementedType", "builtin_type"} }

NoObject == Obj("none", "None", "None", {}, {}, FALSE, "none")

\* cloudpickle.py:81, on CPython.
PYPY == FALSE

\* cloudpickle.py:130-137: the scan of list(sys.modules.items()) from position
\* i on; a lookup that raises is a non-match.
RECURSIVE scan_modules_propagating(_, _)
scan_modules_propagating(obj, i) ==
    IF i > Len(ModuleOrder) THEN "None"
    ELSE LET module_name == ModuleOrder[i]
         IN  IF module_name \notin DOMAIN sys_modules
             THEN scan_modules_propagating(obj, i + 1)
             ELSE IF module_name = "__main__" \/ sys_modules[module_name] = "None"
             THEN scan_modules_propagating(obj, i + 1)
             ELSE IF module_name \in obj.raising_in
             THEN "Exception"
             ELSE IF module_name \in obj.exposed_by
             THEN module_name
             ELSE scan_modules_propagating(obj, i + 1)
RECURSIVE scan_modules(_, _)
scan_modules(obj, i) ==
    IF i > Len(ModuleOrder) THEN "None"
    ELSE LET module_name == ModuleOrder[i]
         IN  IF module_name \notin DOMAIN sys_modules
             THEN scan_modules(obj, i + 1)
             ELSE IF module_name = "__main__" \/ sys_modules[module_name] = "None"
             THEN scan_modules(obj, i + 1)
             ELSE IF module_name \in obj.raising_in
             THEN scan_modules(obj, i + 1)
             ELSE IF module_name \in obj.exposed_by
             THEN module_name
             ELSE scan_modules(obj, i + 1)

\* _whichmodule(obj, name), cloudpickle.py:112-138.
whichmodule(obj, name) ==
    IF obj.kind = "class" /\ obj.module = "__main__" THEN obj.module
    ELSE IF obj.module # "None" THEN obj.module
    ELSE scan_modules(obj, 1)

\* sys.modules.get(module_name, None) is None, cloudpickle.py:166-167.
module_is_none(module_name) ==
    \/ module_name \notin DOMAIN sys_modules
    \/ sys_modules[module_name] = "None"

\* _should_pickle_by_reference(obj, name=None), cloudpickle.py:140-183.
should_pickle_by_reference(obj) ==
    LET name == obj.name
        module_name == whichmodule(obj, name)
    IN  IF name = "None" THEN FALSE
        ELSE IF module_name = "None" THEN FALSE
        ELSE IF module_name = "__main__" THEN FALSE
        ELSE IF module_is_none(module_name) THEN FALSE
        ELSE IF module_name \in PICKLE_BY_VALUE_MODULES THEN FALSE
        ELSE IF sys_modules[module_name] = "nofile" THEN TRUE
        ELSE IF sys_modules[module_name] = "filenone" THEN FALSE
        ELSE TRUE

Decision(obj) == IF should_pickle_by_reference(obj) THEN "Reference" ELSE "Value"

\* is_tornado_coroutine(func), cloudpickle.py:288-293.
is_tornado_coroutine(func) == func.is_coroutine

\* Pickler._function_reduce called from Pickler._dynamic_function_reduce (line
\* 539, PyPy only): each of the two calls the other until the interpreter's
\* recursion limit, unless the function is reference-eligible.
function_reduce_from_dynamic(func) ==
    IF func.module = "__main__" THEN "RecursionError"
    ELSE IF should_pickle_by_reference(func) THEN "NotImplemented"
    ELSE "RecursionError"

\* Pickler._dynamic_function_reduce(func), cloudpickle.py:531-547.  On CPython
\* builtin_code_type is None (line 82) and every function has __code__, so
\* isinstance(func.__code__, builtin_code_type) at line 542 raises TypeError.
dynamic_function_reduce(func) ==
    IF is_tornado_coroutine(func) THEN "NotImplemented"
    ELSE IF PYPY THEN function_reduce_from_dynamic(func)
    ELSE "TypeError"

\* Pickler._function_reduce(obj), cloudpickle.py:549-564.
function_reduce(obj) ==
    IF obj.module = "__main__" THEN dynamic_function_reduce(obj)
    ELSE IF should_pickle_by_reference(obj) THEN "NotImplemented"
    ELSE dynamic_function_reduce(obj)

\* _class_reduce(obj), cloudpickle.py:472-484: a descriptor built on type, the
\* class's name (a global reference), the descriptor of _dynamic_class_reduce,
\* or NotImplemented.
class_reduce(obj) ==
    IF obj.special = "NoneType" THEN "type(None)"
    ELSE IF obj.special = "EllipsisType" THEN "type(Ellipsis)"
    ELSE IF obj.special = "NotImplementedType" THEN "type(NotImplemented)"
    ELSE IF obj.special = "builtin_type" THEN "name"
    ELSE IF ~should_pickle_by_reference(obj) THEN "_make_skeleton_class"
    ELSE "NotImplemented"

\* What the resolver answers for every object of the model, in this state.
ResolverResults == [o \in Objects |-> Decision(o)]

\* register_pickle_by_value(module), cloudpickle.py:87-106: the body is pass.
register_adds(module) == PICKLE_BY_VALUE_MODULES \cup {module}
register_pickle_by_value(module) == PICKLE_BY_VALUE_MODULES

\* unregister_pickle_by_value(module), cloudpickle.py:108-110: the body is pass.
unregister_pickle_by_value(module) == PICKLE_BY_VALUE_MODULES

NoPolicyCall ==
    [op |-> "none", module |-> "None", before |-> {}, after |-> {},
     results_before |-> [o \in Objects |-> "Value"],
     results_after |-> [o \in Objects |-> "Value"]]
NoDecide == [op |-> "none", obj |-> NoObject, result |-> "none"]
PolicyIdle ==
    /\ PICKLE_BY_VALUE_MODULES = {}
    /\ sys_modules = EmptyMap
    /\ registered = {}
    /\ lastPolicy = NoPolicyCall
    /\ prevPolicy = NoPolicyCall
    /\ lastDecide = NoDecide

\* No stream is open.
NoStream == [mode |-> "none", closed |-> TRUE, content |-> << >>, pos |-> 0]
StreamIdle == stream = NoStream

\* loky/backend/context.py:20-21 after import; no call yet.
NoCtxCall == [op |-> "none", args |-> << >>, outcome |-> "none", value |-> 0]
\* physical_cores_cache is None, or the pair _count_physical_cores returned:
\* (number of cores, None) or ("not found", exception).
NoCache == [cached |-> FALSE, found |-> FALSE, cores |-> 0]
ContextInit ==
    /\ DEFAULT_START_METHOD = "None"
    /\ physical_cores_cache = NoCache
    /\ lastCtx = NoCtxCall

\* No dump is under way.
NotSaving ==
    [pc |-> "idle", obj |-> NoObject, type |-> "none", consulted |-> << >>,
     route |-> "none", hook |-> "none", table |-> "none"]
SaveIdle == saving = NotSaving

\* No z-file, no call of hash, filter_args or _extract_code_globals yet.
NoZfile == [content |-> << >>, pos |-> 0]
NoZCall == [op |-> "none"]
ZIdle == zfile = NoZfile /\ lastZ = NoZCall
NoHashCall == [op |-> "none"]
HashIdle == lastHash = NoHashCall
NoFilterCall == [op |-> "none"]
FilterIdle == lastFilter = NoFilterCall
NoExtractCall == [op |-> "none"]
ExtractInit ==
    /\ extract_code_globals_cache = << >>
    /\ extract_frames = << >>
    /\ lastExtract = NoExtractCall
\* loky/backend/reduction.py:54-55.
NoPicklerCall == [op |-> "none"]
\* reduction.py:48-55.  ENV_LOKY_PICKLER is what the environment variable
\* LOKY_PICKLER holds, DEFAULT_ENV ('cloudpickle') without it; both globals
\* start unset.
EnvPicklers == {"pickle", "cloudpickle", "dill", "Pickle"}
PicklerUnset ==
    /\ LokyPickler = "None"
    /\ loky_pickler_name = "None"
    /\ lastPickler = NoPicklerCall
PicklerInit == PicklerUnset /\ ENV_LOKY_PICKLER = "cloudpickle"
MoreIdle == ZIdle /\ HashIdle /\ FilterIdle /\ ExtractInit /\ PicklerInit

OtherIdle == StreamIdle /\ ContextInit /\ SaveIdle /\ MoreIdle

Init == TrackerInit /\ ThreadsIdle /\ PolicyIdle /\ OtherIdle

Next ==
    \/ DefineClass
    \/ DynamicClassReduce
    \/ Loads
    \/ RemoteSkeletonClass
    \/ RemoteSkeletonEnum
    \/ GarbageCollect

\* The sequential process: definitions, serializations, reconstructions and
\* collections, one whole call at a time.
Spec == Init /\ [][Next]_vars

NextSkeleton ==
    \/ RemoteSkeletonClass
    \/ RemoteSkeletonEnum
    \/ GarbageCollect

\* The destination process alone: skeleton reconstructions and collections.
SpecSkeleton == Init /\ [][NextSkeleton]_vars

\* ------------------------------------------- two threads, line by line
\* Two threads of one process run _make_skeleton_class (cloudpickle.py:318-350)
\* or _make_skeleton_enum (cloudpickle.py:352-390) with a possible switch, or
\* a collection, between any two lines.  Neither function takes a lock:
\* _DYNAMIC_CLASS_TRACKER_LOCK (line 80) is used nowhere.  The two functions
\* have the same lines around the registry (the test of the id, the read of
\* the entry, the two stores, the return) and differ in the lines that build
\* the class; a thread is at "check", "lookup", "build", "track_by_id",
\* "track_by_class" or "return" of the function its arguments are for.

\* What the threads are called with: descriptors of the class A and of the
\* enum A, with and without members, under one tracking id or none.
ThreadArgs ==
    { args \in RemoteClassArgs \cup RemoteEnumArgs :
        args.name = "A" /\ args.class_tracker_id \in {"id1", "None"} }

\* The call starts; the thread drops what its previous call returned.
ThreadCall(t) ==
    \E args \in ThreadArgs :
        /\ pc[t] = "idle"
        /\ pc' = [pc EXCEPT ![t] = "check"]
        /\ targs' = [targs EXCEPT ![t] = args]
        /\ tcls' = [tcls EXCEPT ![t] = 0]
        /\ tresult' = [tresult EXCEPT ![t] = NoResult]
        /\ UNCHANGED <<trackerVars, policyVars, otherVars>>

\* Lines 329-330 and 366-367: the test of the id against the by-id map.
ThreadCheck(t) ==
    /\ pc[t] = "check"
    /\ pc' = [pc EXCEPT ![t] = IF SkeletonFound(targs[t]) THEN "lookup" ELSE "build"]
    /\ UNCHANGED <<targs, tcls, tresult, trackerVars, policyVars, otherVars>>

\* Lines 331 and 368: the read of the entry; KeyError when the class was
\* collected since the test.
ThreadLookup(t) ==
    /\ pc[t] = "lookup"
    /\ pc' = [pc EXCEPT ![t] = "idle"]
    /\ tresult' = [tresult EXCEPT ![t] =
                     IF targs[t].class_tracker_id \in DOMAIN DYNAMIC_CLASS_TRACKER_BY_ID
                     THEN [outcome |-> "return",
                           obj |-> DYNAMIC_CLASS_TRACKER_BY_ID[targs[t].class_tracker_id]]
                     ELSE [outcome |-> "raise", obj |-> 0]]
    /\ UNCHANGED <<targs, tcls, trackerVars, policyVars, otherVars>>

\* Lines 335-344: the new class, or TypeError at line 343.  Lines 370-384:
\* the new enum class and the member loop, which raises at the first member;
\* the class built for it is dropped as the exception unwinds.
ThreadBuild(t) ==
    /\ pc[t] = "build"
    /\ IF \/ targs[t].kind = "enum" /\ EnumMembersRaise(targs[t])
          \/ targs[t].kind = "class" /\ MetaclassConflict(targs[t])
       THEN /\ pc' = [pc EXCEPT ![t] = "idle"]
            /\ tresult' = [tresult EXCEPT ![t] = [outcome |-> "raise", obj |-> 0]]
            /\ UNCHANGED <<heap, nextObj, tcls>>
       ELSE /\ nextObj <= MaxObjects
            /\ heap' = Put(heap, nextObj,
                           IF targs[t].kind = "enum" THEN NewSkeletonEnum(targs[t])
                           ELSE NewSkeletonClass(targs[t]))
            /\ nextObj' = nextObj + 1
            /\ tcls' = [tcls EXCEPT ![t] = nextObj]
            /\ pc' = [pc EXCEPT ![t] = "track_by_id"]
            /\ UNCHANGED tresult
    /\ UNCHANGED <<DYNAMIC_CLASS_TRACKER_BY_ID, DYNAMIC_CLASS_TRACKER_BY_CLASS,
                   lastCall, returned, lastReduce, targs, policyVars, otherVars>>

\* Lines 346-347 and 386-387: the by-id entry.
ThreadTrackById(t) ==
    /\ pc[t] = "track_by_id"
    /\ DYNAMIC_CLASS_TRACKER_BY_ID' = TrackById(targs[t].class_tracker_id, tcls[t])
    /\ pc' = [pc EXCEPT ![t] = IF targs[t].class_tracker_id # "None"
                               THEN "track_by_class" ELSE "return"]
    /\ UNCHANGED <<DYNAMIC_CLASS_TRACKER_BY_CLASS, heap, nextObj, lastCall, returned,
                   lastReduce, targs, tcls, tresult, policyVars, otherVars>>

\* Lines 348 and 388: the by-class entry.
ThreadTrackByClass(t) ==
    /\ pc[t] = "track_by_class"
    /\ DYNAMIC_CLASS_TRACKER_BY_CLASS' = TrackByClass(targs[t].class_tracker_id, tcls[t])
    /\ pc' = [pc EXCEPT ![t] = "return"]
    /\ UNCHANGED <<DYNAMIC_CLASS_TRACKER_BY_ID, heap, nextObj, lastCall, returned,
                   lastReduce, targs, tcls, tresult, policyVars, otherVars>>

\* Lines 350 and 390: return cls, return enum_class.
ThreadReturn(t) ==
    /\ pc[t] = "return"
    /\ tresult' = [tresult EXCEPT ![t] = [outcome |-> "return", obj |-> tcls[t]]]
    /\ tcls' = [tcls EXCEPT ![t] = 0]
    /\ pc' = [pc EXCEPT ![t] = "idle"]
    /\ UNCHANGED <<targs, trackerVars, policyVars, otherVars>>

\* A class no thread refers to any more is collected.
ThreadGarbageCollect ==
    \E obj \in DOMAIN heap :
        /\ \A t \in Threads : tcls[t] # obj /\ tresult[t].obj # obj
        /\ heap' = Drop(heap, {obj})
        /\ DYNAMIC_CLASS_TRACKER_BY_ID' = CollectById(obj)
        /\ DYNAMIC_CLASS_TRACKER_BY_CLASS' = CollectByClass(obj)
        /\ UNCHANGED <<nextObj, lastCall, returned, lastReduce, threadVars, policyVars, otherVars>>

NextThreads ==
    \/ \E t \in Threads : ThreadCall(t)
    \/ \E t \in Threads : ThreadCheck(t)
    \/ \E t \in Threads : ThreadLookup(t)
    \/ \E t \in Threads : ThreadBuild(t)
    \/ \E t \in Threads : ThreadTrackById(t)
    \/ \E t \in Threads : ThreadTrackByClass(t)
    \/ \E t \in Threads : ThreadReturn(t)
    \/ ThreadGarbageCollect

SpecThreads == Init /\ [][NextThreads]_vars

\* ------------------------------------------------------------- the claims

\* C1: in a sequence of skeleton reconstructions of one process, a call that
\* carries a non-null tracking id for which an earlier call returned an object
\* that is still alive returns that very object, builds no new type and leaves
\* both maps of the registry unchanged.
C1_SameIdSameType ==
    (lastCall.op # "none" /\ lastCall.args.class_tracker_id # "None") =>
        \A c \in lastCall.prior :
            /\ lastCall.outcome = "return"
            /\ lastCall.result = c
            /\ ~lastCall.built
            /\ lastCall.regSame

\* A second call for an id returned the first call's live object.
C1_Witness ==
    /\ lastCall.op # "none"
    /\ lastCall.prior # {}
    /\ lastCall.result \in lastCall.prior
    /\ lastCall.regBefore = lastCall.result

\* C2: a serialization of a dynamic class carries a non-null tracking id that
\* the registry records for the class (allocated by the first serialization,
\* the same on every later one).
C2_ReduceCarriesTrackingId ==
    (lastReduce.op = "reduce" /\ lastReduce.obj \in DOMAIN heap) =>
        /\ lastReduce.descriptor.args.class_tracker_id # "None"
        /\ lastReduce.obj \in DOMAIN DYNAMIC_CLASS_TRACKER_BY_CLASS
        /\ DYNAMIC_CLASS_TRACKER_BY_CLASS[lastReduce.obj]
             = lastReduce.descriptor.args.class_tracker_id

\* C3: two threads whose calls carried the same non-null tracking id and have
\* both returned hold the same type object, and at most one live type is
\* registered under an id.
C3_ThreadsShareOneType ==
    /\ \A t1, t2 \in Threads :
          ( /\ tresult[t1].outcome = "return"
            /\ tresult[t2].outcome = "return"
            /\ targs[t1].class_tracker_id # "None"
            /\ targs[t1].class_tracker_id = targs[t2].class_tracker_id )
          => tresult[t1].obj = tresult[t2].obj
    /\ \A i \in TrackerIds :
          Cardinality({ c \in DOMAIN DYNAMIC_CLASS_TRACKER_BY_CLASS :
                          DYNAMIC_CLASS_TRACKER_BY_CLASS[c] = i }) <= 1

\* C4: in every state another thread can observe, the by-id map and the
\* by-class map are exact inverses.
C4_MapsAreInverse ==
    /\ \A i \in DOMAIN DYNAMIC_CLASS_TRACKER_BY_ID :
          /\ DYNAMIC_CLASS_TRACKER_BY_ID[i] \in DOMAIN DYNAMIC_CLASS_TRACKER_BY_CLASS
          /\ DYNAMIC_CLASS_TRACKER_BY_CLASS[DYNAMIC_CLASS_TRACKER_BY_ID[i]] = i
    /\ \A c \in DOMAIN DYNAMIC_CLASS_TRACKER_BY_CLASS :
          /\ DYNAMIC_CLASS_TRACKER_BY_CLASS[c] \in DOMAIN DYNAMIC_CLASS_TRACKER_BY_ID
          /\ DYNAMIC_CLASS_TRACKER_BY_ID[DYNAMIC_CLASS_TRACKER_BY_CLASS[c]] = c

\* C5: the class reconstructed from the descriptor of a dynamic class holds
\* every own attribute _extract_class_dict found in the class, the method m
\* that returns the class included.
C5_ReconstructedBodyFilled ==
    (lastCall.src # 0 /\ lastCall.outcome = "return" /\ lastCall.result \in DOMAIN heap) =>
        \A n \in DOMAIN lastCall.dict_items :
            /\ n \in DOMAIN heap[lastCall.result].clsdict
            /\ heap[lastCall.result].clsdict[n] = lastCall.dict_items[n]

\* Whether a skeleton call asks for another shape than the registered type has.
IncompatibleShape(args, rec) ==
    \/ rec.name # args.name
    \/ rec.bases # args.bases
    \/ rec.kind # args.kind

\* C6 as stated: a skeleton call whose tracking id is registered to a type of
\* incompatible shape fails.
C6_CollisionFails ==
    (lastCall.regBefore # 0 /\ IncompatibleShape(lastCall.args, lastCall.regBeforeRec)) =>
        lastCall.outcome = "raise"

\* C6 as amended: a skeleton call whose tracking id is registered returns the
\* registered type, of compatible shape or not, without failing, building a
\* type or touching the registry; the registered type keeps its shape.
C6_CollisionReturnsRegistered ==
    lastCall.regBefore # 0 =>
        /\ lastCall.outcome = "return"
        /\ lastCall.result = lastCall.regBefore
        /\ ~lastCall.built
        /\ lastCall.regSame
        /\ lastCall.result \in DOMAIN heap => heap[lastCall.result] = lastCall.regBeforeRec

\* An enum skeleton arrived under the id of a registered class of another name
\* and got the class.
C6_Witness ==
    /\ lastCall.op = "enum"
    /\ lastCall.regBefore # 0
    /\ lastCall.regBeforeRec.kind = "class"
    /\ IncompatibleShape(lastCall.args, lastCall.regBeforeRec)
    /\ lastCall.outcome = "return"
    /\ lastCall.result = lastCall.regBefore

\* ------------------------------------------- the by-value policy, as calls
\* The module tables of SpecPolicy: both packages regular; ns a namespace
\* package; pkg not loaded.
PolicyTables ==
    { t \in ModuleTables :
        /\ t["__main__"] = "regular"
        /\ \/ DOMAIN t = {"builtins", "__main__", "ns", "pkg"}
              /\ t["pkg"] = "regular" /\ t["ns"] \in {"regular", "filenone"}
           \/ DOMAIN t = {"builtins", "__main__", "ns"} /\ t["ns"] = "regular" }

PolicyInit ==
    /\ PICKLE_BY_VALUE_MODULES = {}
    /\ sys_modules \in PolicyTables
    /\ registered = {}
    /\ lastPolicy = NoPolicyCall
    /\ prevPolicy = NoPolicyCall
    /\ lastDecide = NoDecide

PolicyCall(op, module) ==
    [op |-> op, module |-> module, before |-> PICKLE_BY_VALUE_MODULES,
     after |-> PICKLE_BY_VALUE_MODULES', results_before |-> ResolverResults,
     results_after |-> ResolverResults']

RegisterPickleByValue ==
    \E module \in {"ns", "pkg"} :
        /\ PICKLE_BY_VALUE_MODULES' = register_pickle_by_value(module)
        /\ UNCHANGED sys_modules
        /\ registered' = registered \cup {module}
        /\ lastPolicy' = PolicyCall("register", module)
        /\ prevPolicy' = lastPolicy
        /\ UNCHANGED <<lastDecide, trackerVars, threadVars, otherVars>>

UnregisterPickleByValue ==
    \E module \in {"ns", "pkg"} :
        /\ PICKLE_BY_VALUE_MODULES' = unregister_pickle_by_value(module)
        /\ UNCHANGED sys_modules
        /\ registered' = registered \ {module}
        /\ lastPolicy' = PolicyCall("unregister", module)
        /\ prevPolicy' = lastPolicy
        /\ UNCHANGED <<lastDecide, trackerVars, threadVars, otherVars>>

ShouldPickleByReference ==
    \E obj \in Objects :
        /\ lastDecide' = [op |-> "should_pickle_by_reference", obj |-> obj,
                          result |-> Decision(obj)]
        /\ UNCHANGED <<PICKLE_BY_VALUE_MODULES, sys_modules, registered, lastPolicy,
                       prevPolicy, trackerVars, threadVars, otherVars>>

ClassReduce ==
    \E obj \in Objects :
        /\ obj.kind = "class"
        /\ lastDecide' = [op |-> "class_reduce", obj |-> obj, result |-> class_reduce(obj)]
        /\ UNCHANGED <<PICKLE_BY_VALUE_MODULES, sys_modules, registered, lastPolicy,
                       prevPolicy, trackerVars, threadVars, otherVars>>

FunctionReduce ==
    \E obj \in Objects :
        /\ obj.kind = "function"
        /\ lastDecide' = [op |-> "function_reduce", obj |-> obj,
                          result |-> function_reduce(obj)]
        /\ UNCHANGED <<PICKLE_BY_VALUE_MODULES, sys_modules, registered, lastPolicy,
                       prevPolicy, trackerVars, threadVars, otherVars>>

NextPolicy ==
    \/ RegisterPickleByValue
    \/ UnregisterPickleByValue
    \/ ShouldPickleByReference

\* The policy API and the resolver, from the state after import.
InitPolicy == TrackerInit /\ ThreadsIdle /\ PolicyInit /\ OtherIdle

SpecPolicy == InitPolicy /\ [][NextPolicy]_vars

\* -------------------- the resolver and the reducers as functions of the state
\* Every module table and every content of the by-value set.
DecideInit ==
    /\ PICKLE_BY_VALUE_MODULES \in SUBSET {"ns", "pkg"}
    /\ sys_modules \in ModuleTables
    /\ registered = {}
    /\ lastPolicy = NoPolicyCall
    /\ prevPolicy = NoPolicyCall
    /\ lastDecide = NoDecide

NextDecide ==
    \/ ShouldPickleByReference
    \/ ClassReduce
    \/ FunctionReduce

InitDecide == TrackerInit /\ ThreadsIdle /\ DecideInit /\ OtherIdle

SpecDecide == InitDecide /\ [][NextDecide]_vars

\* C7: for a class or function owned by "__main__" the resolver answers Value
\* and neither _class_reduce nor Pickler._function_reduce returns
\* NotImplemented.
C7_MainNeverByReference ==
    (lastDecide.op # "none" /\ lastDecide.obj.module = "__main__"
       /\ lastDecide.obj.kind \in {"class", "function"}) =>
        /\ lastDecide.result # "Reference"
        /\ lastDecide.result # "NotImplemented"

\* Whether the resolver finds module to be the owner of the object.
OwnedBy(o, module) == whichmodule(o, o.name) = module

\* C8: the by-value set is empty before the first call, and while a module is
\* registered (register called, unregister not called since) it is in the set
\* and the resolver answers Value for every object it owns.
C8_RegisteredIsByValue ==
    /\ lastPolicy.op = "none" => PICKLE_BY_VALUE_MODULES = {}
    /\ \A module \in registered :
          /\ module \in PICKLE_BY_VALUE_MODULES
          /\ \A o \in Objects : OwnedBy(o, module) => Decision(o) = "Value"

\* C9: a second register_pickle_by_value(m) right after the first leaves the
\* set and every resolver answer as the first left them, and an
\* unregister_pickle_by_value(m) right after a register_pickle_by_value(m)
\* leaves every resolver answer as it was before the registration.
C9_RegisterIdempotentReversible ==
    /\ ( /\ lastPolicy.op = "register"
         /\ prevPolicy.op = "register"
         /\ lastPolicy.module = prevPolicy.module )
       => /\ lastPolicy.after = prevPolicy.after
          /\ lastPolicy.results_after = prevPolicy.results_after
    /\ ( /\ lastPolicy.op = "unregister"
         /\ prevPolicy.op = "register"
         /\ lastPolicy.module = prevPolicy.module )
       => lastPolicy.results_after = prevPolicy.results_before

\* A module that owns an object answered Reference was registered and then
\* unregistered.
C9_Witness ==
    /\ lastPolicy.op = "unregister"
    /\ prevPolicy.op = "register"
    /\ lastPolicy.module = prevPolicy.module
    /\ \E o \in Objects :
          /\ OwnedBy(o, lastPolicy.module)
          /\ prevPolicy.results_before[o] = "Reference"

\* A module constructed ad hoc: a module object made with types.ModuleType
\* and put in the module table.  It carries no attribute __file__; builtins,
\* the interpreter's own module without one, is not of these.
ConstructedAdHoc(module_name) ==
    /\ module_name # "builtins"
    /\ sys_modules[module_name] = "nofile"

\* The owner is locatable from a stable position: it is currently loaded (the
\* module table holds a module under its name) and was not constructed ad hoc.
LocatableFromStablePosition(module_name) ==
    /\ module_name \in DOMAIN sys_modules
    /\ sys_modules[module_name] # "None"
    /\ ~ConstructedAdHoc(module_name)

\* C10: the resolver answers Reference exactly when a name is derivable, an
\* owning module is found, the owner is not "__main__", the owner is locatable
\* from a stable position (currently loaded, not constructed ad hoc) and the
\* owner is not in the by-value set; otherwise it answers Value.
C10_ReferenceExactlyWhen ==
    lastDecide.op = "should_pickle_by_reference" =>
        LET o == lastDecide.obj
            owner == whichmodule(o, o.name)
            eligible == /\ o.name # "None"
                        /\ owner # "None"
                        /\ owner # "__main__"
                        /\ LocatableFromStablePosition(owner)
                        /\ owner \notin PICKLE_BY_VALUE_MODULES
        IN  /\ eligible => lastDecide.result = "Reference"
            /\ ~eligible => lastDecide.result = "Value"

\* ------------------------------------------------- the module scan alone
\* _whichmodule(obj, name) called directly, cloudpickle.py:112-138.
WhichModule ==
    \E obj \in Objects :
        /\ lastDecide' = [op |-> "whichmodule", obj |-> obj,
                          result |-> whichmodule(obj, obj.name)]
        /\ UNCHANGED <<PICKLE_BY_VALUE_MODULES, sys_modules, registered, lastPolicy,
                       prevPolicy, trackerVars, threadVars, otherVars>>

NextWhich ==
    \/ WhichModule
    \/ ShouldPickleByReference

SpecWhich == InitDecide /\ [][NextWhich]_vars

\* The modules the scan can match for the object: loaded, not "__main__", not
\* None in the table, whose lookup of the name does not raise and yields the
\* object; as positions of list(sys.modules.items()).
ScanMatches(o) ==
    { i \in 1..Len(ModuleOrder) :
        /\ ModuleOrder[i] \in DOMAIN sys_modules
        /\ ModuleOrder[i] # "__main__"
        /\ sys_modules[ModuleOrder[i]] # "None"
        /\ ModuleOrder[i] \notin o.raising_in
        /\ ModuleOrder[i] \in o.exposed_by }

\* C11: when _whichmodule scans the module table (the object has no
\* __module__), a candidate module whose lookup raises is a non-match: the call
\* raises nothing, and it returns the first module of the table that exposes
\* the object without raising, also one that comes after the raising module,
\* or None if there is none.
C11_ScanSwallowsExceptions ==
    (lastDecide.op = "whichmodule" /\ lastDecide.obj.module = "None") =>
        LET o == lastDecide.obj
            matches == ScanMatches(o)
        IN  /\ lastDecide.result # "Exception"
            /\ matches = {} => lastDecide.result = "None"
            /\ matches # {} =>
                 \E i \in matches :
                    /\ lastDecide.result = ModuleOrder[i]
                    /\ \A j \in matches : i <= j

\* The lookup raised in the loaded module ns and the scan returned pkg, which
\* comes after ns in the table.
C11_Witness ==
    /\ lastDecide.op = "whichmodule"
    /\ lastDecide.obj.module = "None"
    /\ "ns" \in lastDecide.obj.raising_in
    /\ "ns" \in DOMAIN sys_modules
    /\ sys_modules["ns"] # "None"
    /\ lastDecide.result = "pkg"

\* ------------------------------------------------------------ closure cells
\* A closure cell is empty or holds a value; of a value the model keeps what
\* the reducer and the pickle backend look at: whether it is None, a string,
\* a tuple (and then its length, whether its first item is callable, whether
\* its second is a tuple, and whether the call first(*second) succeeds) or
\* anything else ("int", "list").
TupleValues ==
    {"()", "('a',)", "(1, 2)", "(int, [5])", "(int, ('x',))", "(int, ('5',))"}
CellValues == {"None", "int", "str", "list"} \cup TupleValues
Cell(empty, contents) == [empty |-> empty, contents |-> contents]
EmptyCell == Cell(TRUE, "unset")
Cells == {EmptyCell} \cup { Cell(FALSE, v) : v \in CellValues }
NoCell == Cell(TRUE, "no cell")

\* _cell_reduce(obj), cloudpickle.py:414-417.  Reading cell_contents of an
\* empty cell raises ValueError; a cell holding None gives the sentinel object
\* _empty_cell_value (lines 310-316); any other cell gives its contents.
cell_reduce(obj) ==
    IF obj.empty THEN [outcome |-> "ValueError", value |-> "none"]
    ELSE IF obj.contents = "None"
    THEN [outcome |-> "return", value |-> "_empty_cell_value"]
    ELSE [outcome |-> "return", value |-> obj.contents]

\* What the pickle backend makes of a tuple returned by a reducer: it must
\* have 2 to 6 items, a callable first and a tuple second, or the dump fails
\* with PicklingError; the load calls first(*second), which raises what the
\* callable raises (int('x'): ValueError) or gives its result (int('5'): 5).
tuple_roundtrip(value) ==
    IF value \in {"()", "('a',)"} THEN "PicklingError"   \* 2 through 6 elements
    ELSE IF value = "(1, 2)" THEN "PicklingError"        \* first item not callable
    ELSE IF value = "(int, [5])" THEN "PicklingError"    \* second item not a tuple
    ELSE IF value = "(int, ('x',))" THEN "ValueError"    \* raised by the load
    ELSE "loaded"

\* What Pickler.dump followed by a load makes of a cell: the dispatch table
\* (line 510) hands the cell to _cell_reduce and the backend takes the value
\* returned for a reduce value.  A string is looked up as a global name (an
\* attribute of the cell's module, which it is not), a tuple is taken as
\* (callable, args), anything else is refused with PicklingError.  No path
\* builds a cell: a load that succeeds gives the result of the call.
cell_roundtrip(obj) ==
    LET r == cell_reduce(obj)
    IN  IF r.outcome # "return"
        THEN [outcome |-> r.outcome, encoded |-> "none", cell |-> NoCell]
        ELSE IF r.value = "str"
        THEN [outcome |-> "PicklingError", encoded |-> r.value, cell |-> NoCell]
        ELSE IF r.value \in TupleValues
        THEN [outcome |-> tuple_roundtrip(r.value), encoded |-> r.value, cell |-> NoCell]
        ELSE [outcome |-> "PicklingError", encoded |-> r.value, cell |-> NoCell]

CellRoundTrip ==
    \E obj \in Cells :
        /\ lastDecide' = [op |-> "cell_roundtrip", obj |-> obj,
                          result |-> cell_roundtrip(obj)]
        /\ UNCHANGED <<PICKLE_BY_VALUE_MODULES, sys_modules, registered, lastPolicy,
                       prevPolicy, trackerVars, threadVars, otherVars>>

\* C12: encoding and reconstructing a closure cell gives a cell in the same
\* state: an empty cell is encoded with the sentinel and comes back empty, and
\* a cell that holds a value (None included) comes back holding that value.
C12_CellRoundTrip ==
    lastDecide.op = "cell_roundtrip" =>
        /\ lastDecide.result.outcome = "loaded"
        /\ lastDecide.result.cell = lastDecide.obj
        /\ lastDecide.obj.empty => lastDecide.result.encoded = "_empty_cell_value"

\* ---------------------------------------------- functions and their closures
\* A function object as the function reducers and _function_setstate see it:
\* what the resolver reads (an Obj record), its __dict__, its __globals__ and
\* its __closure__, a sequence of cell names.  The cells live in a store: cell
\* name -> cell, a cell being empty or holding an integer.
IntCell(empty, value) == [empty |-> empty, value |-> value]
CellNames == {"c1", "c2"}
Func(obj, dict, globals, closure) ==
    [obj |-> obj, dict |-> dict, globals |-> globals, closure |-> closure]

\* dict.update(other): the entries of other replace and extend those of dict.
DictUpdate(dict, other) ==
    [k \in DOMAIN dict \cup DOMAIN other |->
        IF k \in DOMAIN other THEN other[k] ELSE dict[k]]

\* Nested functions of "__main__" (never reference-eligible), flagged as
\* coroutines or not.
NestedObj(is_coroutine) == Obj("function", "f", "__main__", {}, {}, is_coroutine, "none")

\* Two functions defined in one enclosing call, with the cells they capture:
\* both close over c1 (a counter initialised to 5), or f over c1 and g over c2.
ClosurePrograms ==
    { [f |-> Func(NestedObj(co), EmptyMap, EmptyMap, <<"c1">>),
       g |-> Func(NestedObj(FALSE), EmptyMap, EmptyMap, <<gc>>),
       cells |-> [c \in CellNames |-> IntCell(FALSE, IF c = "c1" THEN 5 ELSE 7)]] :
        co \in BOOLEAN, gc \in CellNames }

\* The backend's encoding of one function.  reducer_override hands it to
\* Pickler._function_reduce (lines 608-609): an exception of the reducer ends
\* the dump, and a function for which the reducer returns NotImplemented is
\* left to the backend's encoding by reference, which looks its qualified
\* name up in its module and fails for a function defined in another
\* function's body ("Can't pickle local object", AttributeError).
function_dump(func) ==
    LET r == function_reduce(func.obj)
    IN  IF r = "NotImplemented" THEN "AttributeError" ELSE r

\* Pickler.dump((f, g)) followed by a load: f is encoded first and the first
\* failure ends the dump, before g is looked at.  Every function of
\* ClosurePrograms is nested and no outcome of the reducer is a descriptor,
\* so every dump fails and nothing is reconstructed.
functions_roundtrip(prog) ==
    LET df == function_dump(prog.f)
        dg == function_dump(prog.g)
        raised == {"TypeError", "RecursionError", "AttributeError"}
    IN  IF df \in raised
        THEN [outcome |-> df, f_closure |-> << >>, g_closure |-> << >>]
        ELSE [outcome |-> dg, f_closure |-> << >>, g_closure |-> << >>]

FunctionsRoundTrip ==
    \E prog \in ClosurePrograms :
        /\ lastDecide' = [op |-> "functions_roundtrip", obj |-> prog,
                          result |-> functions_roundtrip(prog)]
        /\ UNCHANGED <<PICKLE_BY_VALUE_MODULES, sys_modules, registered, lastPolicy,
                       prevPolicy, trackerVars, threadVars, otherVars>>

\* _function_setstate(obj, state), cloudpickle.py:486-498: state is the pair
\* (state, slotstate); obj.__dict__ is updated with state, obj.__globals__ is
\* cleared and updated with slotstate.  Neither __closure__ nor any cell is
\* written.
function_setstate(obj, state) ==
    [obj EXCEPT !.dict = DictUpdate(obj.dict, state.state),
                !.globals = state.slotstate]

\* The shells a restore starts from: no attributes, an empty or a stale
\* namespace, one or two empty cells.
Shells ==
    { Func(NestedObj(FALSE), EmptyMap, g, cl) :
        g \in {EmptyMap, [stale |-> <<1>>]},
        cl \in {<<"c1">>, <<"c1", "c2">>} }

\* The states restored into a shell of n cells: the instance fields, and the
\* execution context with the globals subset and the ordered values of the
\* n closure cells.
FunctionStates(n) ==
    { [state |-> st,
       slotstate |-> [globals |-> [used |-> <<2>>], closure |-> cl]] :
        st \in {EmptyMap, [attr |-> <<1>>]},
        cl \in {c \in {<<5>>, <<6>>, <<5, 7>>} : Len(c) = n} }

FunctionSetstate ==
    \E shell \in Shells :
      \E state \in FunctionStates(Len(shell.closure)) :
        LET cells == [c \in CellNames |-> IntCell(TRUE, 0)]
        IN  /\ lastDecide' =
                 [op |-> "function_setstate",
                  obj |-> [shell |-> shell, state |-> state, cells |-> cells],
                  result |-> [func |-> function_setstate(shell, state),
                              cells |-> cells]]
            /\ UNCHANGED <<PICKLE_BY_VALUE_MODULES, sys_modules, registered,
                           lastPolicy, prevPolicy, trackerVars, threadVars, otherVars>>

\* C13: two functions that close over the same cell, encoded together and
\* reconstructed, are two functions whose closures hold one and the same cell.
C13_SharedCellStaysShared ==
    ( /\ lastDecide.op = "functions_roundtrip"
      /\ lastDecide.obj.f.closure[1] = lastDecide.obj.g.closure[1] ) =>
        /\ lastDecide.result.outcome = "loaded"
        /\ Len(lastDecide.result.f_closure) = 1
        /\ Len(lastDecide.result.g_closure) = 1
        /\ lastDecide.result.f_closure[1] = lastDecide.result.g_closure[1]

\* C14: after a function's state is restored, its closure cells hold, in
\* order, the values captured at encode time (so that the counter function
\* observes 5 on its first call); and encoding and reconstructing a nested
\* function that is not a coroutine succeeds.
C14_ClosureValuesRestored ==
    /\ lastDecide.op = "function_setstate" =>
          LET func == lastDecide.result.func
              captured == lastDecide.obj.state.slotstate.closure
          IN  \A i \in 1..Len(captured) :
                 lastDecide.result.cells[func.closure[i]] = IntCell(FALSE, captured[i])
    /\ ( /\ lastDecide.op = "functions_roundtrip"
         /\ ~lastDecide.obj.f.obj.is_coroutine ) =>
          lastDecide.result.outcome = "loaded"

\* C15: the function reducer refuses a function flagged as a coroutine that it
\* would otherwise encode by value with a hard failure: it neither returns a
\* descriptor nor declines with NotImplemented.
C15_CoroutineRefused ==
    ( /\ lastDecide.op = "function_reduce"
      /\ lastDecide.obj.is_coroutine
      /\ ~should_pickle_by_reference(lastDecide.obj) ) =>
        lastDecide.result = "PicklingError"

\* ------------------------------------------------------------ text streams
\* An io.TextIOWrapper as _file_reduce reads it: the mode string it was opened
\* with, whether it is closed, its content and its read position (the number
\* of characters before it).
Modes == {"r", "rt", "r+", "w", "w+", "a"}
Contents == {<< >>, <<"a", "b", "c">>}
Streams ==
    { [mode |-> m, closed |-> cl, content |-> c, pos |-> p] :
        m \in Modes, cl \in BOOLEAN, c \in Contents, p \in 0..3 }

FileInit ==
    /\ stream \in {s \in Streams : s.pos <= Len(s.content)}

\* obj.read(): the content from the position on; the position moves to the end.
Remaining(obj) == SubSeq(obj.content, obj.pos + 1, Len(obj.content))

NoDescriptor == [constructor |-> "none", args |-> << >>]

\* _file_reduce(obj), cloudpickle.py:419-429: the outcome, the descriptor
\* returned and the stream as the call leaves it.
file_reduce_any_mode(obj) ==
    IF obj.closed
    THEN [outcome |-> "PicklingError", descriptor |-> NoDescriptor, stream |-> obj]
    ELSE [outcome |-> "return",
          descriptor |-> [constructor |-> "io.StringIO", args |-> <<Remaining(obj)>>],
          stream |-> [obj EXCEPT !.pos = Len(obj.content)]]
file_reduce(obj) ==
    IF obj.closed
    THEN [outcome |-> "PicklingError", descriptor |-> NoDescriptor, stream |-> obj]
    ELSE IF obj.mode = "r"
    THEN [outcome |-> "return",
          descriptor |-> [constructor |-> "io.StringIO", args |-> <<Remaining(obj)>>],
          stream |-> [obj EXCEPT !.pos = Len(obj.content)]]
    ELSE [outcome |-> "PicklingError", descriptor |-> NoDescriptor, stream |-> obj]

\* constructor(*args) at load time: io.StringIO(text) is a readable source
\* positioned at its start; what a read of it yields.
Reconstructed(descriptor) ==
    IF descriptor.constructor = "io.StringIO"
    THEN [readable |-> TRUE, yields |-> descriptor.args[1]]
    ELSE [readable |-> FALSE, yields |-> << >>]

FileReduce ==
    LET r == file_reduce(stream)
    IN  /\ stream' = r.stream
        /\ lastDecide' = [op |-> "file_reduce", obj |-> stream,
                          result |-> [outcome |-> r.outcome,
                                      descriptor |-> r.descriptor,
                                      loaded |-> Reconstructed(r.descriptor),
                                      after |-> r.stream]]
        /\ UNCHANGED <<PICKLE_BY_VALUE_MODULES, sys_modules, registered, lastPolicy,
                       prevPolicy, trackerVars, threadVars, contextVars, saveVars,
                       moreVars>>

\* The program reads one character of the stream.
StreamRead ==
    /\ ~stream.closed
    /\ stream.mode \in {"r", "rt", "r+", "w+"}
    /\ stream.pos < Len(stream.content)
    /\ stream' = [stream EXCEPT !.pos = @ + 1]
    /\ UNCHANGED <<policyVars, trackerVars, threadVars, contextVars, saveVars,
                   moreVars>>

\* The program closes the stream.
StreamClose ==
    /\ ~stream.closed
    /\ stream' = [stream EXCEPT !.closed = TRUE]
    /\ UNCHANGED <<policyVars, trackerVars, threadVars, contextVars, saveVars,
                   moreVars>>

NextFile ==
    \/ FileReduce
    \/ StreamRead
    \/ StreamClose

InitFile ==
    /\ TrackerInit /\ ThreadsIdle /\ PolicyIdle
    /\ ContextInit /\ SaveIdle /\ MoreIdle /\ FileInit

SpecFile == InitFile /\ [][NextFile]_vars

\* The modes that open a stream for writing, and those that open it for
\* reading only.
WriteModes == {"r+", "w", "w+", "a"}
ReadModes == {"r", "rt"}

\* C16: _file_reduce of an open stream in a write mode raises PicklingError,
\* returns no descriptor and leaves the stream's position and content as they
\* were.
C16_WriteModeRefused ==
    ( /\ lastDecide.op = "file_reduce"
      /\ ~lastDecide.obj.closed
      /\ lastDecide.obj.mode \in WriteModes ) =>
        /\ lastDecide.result.outcome = "PicklingError"
        /\ lastDecide.result.descriptor = NoDescriptor
        /\ lastDecide.result.after = lastDecide.obj

\* A stream with content "abc", opened with "w+" and read up to position 1,
\* was refused.
C16_Witness ==
    /\ lastDecide.op = "file_reduce"
    /\ lastDecide.obj.mode = "w+"
    /\ ~lastDecide.obj.closed
    /\ lastDecide.obj.content = <<"a", "b", "c">>
    /\ lastDecide.obj.pos = 1
    /\ lastDecide.result.outcome = "PicklingError"

\* C17: for every open stream opened in a read mode, _file_reduce returns a
\* descriptor whose reconstruction is a readable source that yields exactly the
\* content the stream had left to read at encode time.
C17_ReadModeRoundTrip ==
    ( /\ lastDecide.op = "file_reduce"
      /\ ~lastDecide.obj.closed
      /\ lastDecide.obj.mode \in ReadModes ) =>
        /\ lastDecide.result.outcome = "return"
        /\ lastDecide.result.loaded.readable
        /\ lastDecide.result.loaded.yields = Remaining(lastDecide.obj)

\* ------------------------------------------------ the override hook in dump
\* The types of the outgoing objects: type objects, function objects, and
\* other objects whose type is a key of Pickler._dispatch_table (cloudpickle.py:
\* 502-528) or is not.
DispatchTable ==
    [t \in {"io.TextIOWrapper", "CellType", "types.CodeType"} |->
        IF t = "io.TextIOWrapper" THEN "_file_reduce"
        ELSE IF t = "CellType" THEN "_cell_reduce" ELSE "_code_reduce"]
OtherTypes == DOMAIN DispatchTable \cup {"instance"}
Outgoing ==
    { [obj |-> o, type |-> "type"] : o \in {x \in Objects : x.kind = "class"} }
    \cup { [obj |-> o, type |-> "types.FunctionType"] :
             o \in {x \in Objects : x.kind = "function"} }
    \cup { [obj |-> Obj("other", "None", "None", {}, {}, FALSE, "none"), type |-> t] :
             t \in OtherTypes }

\* Pickler.reducer_override(obj), cloudpickle.py:575-611: the reducer the hook
\* routes the object to and what the hook returns.
reducer_override_without_functions(obj) ==
    IF obj.kind = "class"
    THEN [route |-> "_class_reduce", result |-> class_reduce(obj)]
    ELSE [route |-> "none", result |-> "NotImplemented"]
reducer_override(obj) ==
    IF obj.kind = "class"
    THEN [route |-> "_class_reduce", result |-> class_reduce(obj)]
    ELSE IF obj.kind = "function"
    THEN [route |-> "_function_reduce", result |-> function_reduce(obj)]
    ELSE [route |-> "none", result |-> "NotImplemented"]

\* Pickler.dump reaches an object that is not of a builtin atomic type.
SaveBegin ==
    \E out \in Outgoing :
        /\ saving.pc \in {"idle", "done"}
        /\ saving' = [NotSaving EXCEPT !.pc = "hook", !.obj = out.obj, !.type = out.type]
        /\ UNCHANGED <<policyVars, trackerVars, threadVars, streamVars, contextVars,
                   moreVars>>

\* The backend calls the hook first ("reducer_override has the priority over
\* dispatch_table-registered reducers", lines 599-600).  A value other than
\* NotImplemented, or an exception, ends the handling of the object; a declined
\* type or function object is encoded by reference without a table lookup.
SaveHook ==
    /\ saving.pc = "hook"
    /\ LET r == reducer_override(saving.obj)
       IN  saving' = [saving EXCEPT
                        !.consulted = Append(@, "reducer_override"),
                        !.route = r.route,
                        !.hook = r.result,
                        !.pc = IF r.result = "NotImplemented"
                                  /\ saving.type \in OtherTypes
                               THEN "table" ELSE "done"]
    /\ UNCHANGED <<policyVars, trackerVars, threadVars, streamVars, contextVars,
                   moreVars>>

\* The hook declined: the backend looks the object's type up in
\* Pickler.dispatch_table (line 529) and otherwise uses its own encoding.
SaveTable ==
    /\ saving.pc = "table"
    /\ saving' = [saving EXCEPT
                    !.consulted = Append(@, "dispatch_table"),
                    !.table = IF saving.type \in DOMAIN DispatchTable
                              THEN DispatchTable[saving.type] ELSE "default",
                    !.pc = "done"]
    /\ UNCHANGED <<policyVars, trackerVars, threadVars, streamVars, contextVars,
                   moreVars>>

NextSave ==
    \/ SaveBegin
    \/ SaveHook
    \/ SaveTable

SpecSave == InitDecide /\ [][NextSave]_vars

\* C18: every outgoing object passes the hook before any lookup in the
\* per-type table; the hook routes type objects to the class reducer and
\* function objects to the function reducer and declines everything else; and
\* the table is consulted only for objects for which the hook returned
\* NotImplemented.
C18_HookBeforeTable ==
    /\ saving.pc \in {"table", "done"} =>
          /\ saving.consulted[1] = "reducer_override"
          /\ saving.type = "type" => saving.route = "_class_reduce"
          /\ saving.type = "types.FunctionType" => saving.route = "_function_reduce"
          /\ saving.type \in OtherTypes =>
                saving.route = "none" /\ saving.hook = "NotImplemented"
    /\ \A i \in 1..Len(saving.consulted) :
          saving.consulted[i] = "dispatch_table" =>
             /\ i > 1
             /\ saving.consulted[1] = "reducer_override"
             /\ saving.hook = "NotImplemented"
    /\ saving.pc = "done" /\ saving.hook # "NotImplemented" =>
          saving.consulted = <<"reducer_override">>

\* A cell went through the hook, was declined and found _cell_reduce in the
\* table.
C18_Witness ==
    /\ saving.pc = "done"
    /\ saving.type = "CellType"
    /\ saving.consulted = <<"reducer_override", "dispatch_table">>
    /\ saving.hook = "NotImplemented"
    /\ saving.table = "_cell_reduce"

\* ------------------------------------- loky/backend/context.py: cpu_count
\* The machine: mp.cpu_count() gives 1..MaxCpus or raises NotImplementedError
\* ("unknown"); the platform is linux.
MaxCpus == 3
OsCounts == [known : {TRUE}, n : 1..MaxCpus] \cup {[known |-> FALSE, n |-> 0]}

\* The values of os.environ.get('LOKY_MAX_CPU_COUNT'): unset, blank, a string
\* float() refuses, "nan", "inf", "-inf", or a decimal number num/den.
EnvNumbers == [kind : {"number"}, num : (0 - 1)..(MaxCpus + 1), den : {1, 2}]
EnvValues ==
    [kind : {"unset", "blank", "nonnumeric", "nan", "inf", "-inf"}, num : {0}, den : {1}]
    \cup EnvNumbers

\* What reading /proc/cpuinfo gives when the cache is empty: a number of
\* physical cores, or nothing usable (no "cpu cores" line, or an exception).
Probes == [cached : {TRUE}, found : {TRUE}, cores : 1..MaxCpus]
          \cup {[cached |-> TRUE, found |-> FALSE, cores |-> 0]}

Max(a, b) == IF a >= b THEN a ELSE b
\* int(x) of the float x = num/den: truncation towards zero.
Trunc(num, den) == IF num >= 0 THEN num \div den ELSE 0 - ((0 - num) \div den)

CtxNone == [outcome |-> "return", is_none |-> TRUE, value |-> 0]
CtxInt(v) == [outcome |-> "return", is_none |-> FALSE, value |-> v]
CtxRaise(e) == [outcome |-> e, is_none |-> TRUE, value |-> 0]

\* _cpu_count_user(os_cpu_count), context.py:69-85.
cpu_count_user(env, os_cpu_count) ==
    IF env.kind \in {"unset", "blank"} THEN CtxNone
    ELSE IF env.kind = "nonnumeric" THEN CtxNone          \* float() raises ValueError
    ELSE IF env.kind = "nan" THEN CtxNone                 \* int(nan) raises ValueError
    ELSE IF env.kind = "inf" THEN CtxInt(os_cpu_count)    \* int(min(inf, os_cpu_count))
    ELSE IF env.kind = "-inf" THEN CtxRaise("OverflowError")  \* int(-inf)
    ELSE IF env.num > 0
    THEN IF env.num <= os_cpu_count * env.den
         THEN CtxInt(Trunc(env.num, env.den))
         ELSE CtxInt(os_cpu_count)
    ELSE CtxInt(Max(1, Trunc(env.num * os_cpu_count, env.den)))

\* _count_physical_cores(), context.py:87-148: the cached pair if there is one,
\* otherwise the result of the probe, which is cached.
count_physical_cores(probe) ==
    IF physical_cores_cache.cached THEN physical_cores_cache ELSE probe

\* cpu_count(only_physical_cores), context.py:23-67: the outcome and the cache
\* it leaves.
cpu_count(only_physical_cores, os, env, probe) ==
    LET os_cpu_count == IF os.known THEN os.n ELSE 1
        user == cpu_count_user(env, os_cpu_count)
        physical == count_physical_cores(probe)
    IN  IF user.outcome # "return"
        THEN [outcome |-> user.outcome, value |-> 0, cache |-> physical_cores_cache]
        ELSE IF ~user.is_none
        THEN [outcome |-> "return", value |-> user.value, cache |-> physical_cores_cache]
        ELSE IF only_physical_cores
        THEN IF physical.found
             THEN [outcome |-> "return", value |-> Max(1, physical.cores),
                   cache |-> physical]
             ELSE [outcome |-> "return", value |-> Max(1, os_cpu_count),
                   cache |-> physical]
        ELSE [outcome |-> "return", value |-> Max(1, os_cpu_count),
              cache |-> physical_cores_cache]

CpuCount ==
    \E only_physical_cores \in BOOLEAN, os \in OsCounts, env \in EnvValues,
       probe \in Probes :
        LET r == cpu_count(only_physical_cores, os, env, probe)
        IN  /\ physical_cores_cache' = r.cache
            /\ lastCtx' = [op |-> "cpu_count",
                           args |-> <<only_physical_cores, os, env>>,
                           outcome |-> r.outcome, value |-> r.value]
            /\ UNCHANGED <<DEFAULT_START_METHOD, policyVars, trackerVars, threadVars,
                           streamVars, saveVars, moreVars>>

\* C19: cpu_count() returns an integer larger than or equal to 1, whatever the
\* OS CPU count, the value of LOKY_MAX_CPU_COUNT and only_physical_cores.
C19_CpuCountAtLeastOne ==
    lastCtx.op = "cpu_count" =>
        /\ lastCtx.outcome = "return"
        /\ lastCtx.value >= 1

\* ----------------------------------- loky/backend/context.py: get_context
\* START_METHODS, context.py:17-19, on a platform other than win32.
START_METHODS == {"loky", "loky_init_main", "spawn", "fork", "forkserver"}
Methods == START_METHODS \cup {"None", "bogus", ""}

\* get_context(method), context.py:214-236.  The assignment at line 223 makes
\* _DEFAULT_START_METHOD a local variable of the function (there is no global
\* statement), so the test at line 222 reads an unbound local and raises
\* UnboundLocalError whenever method is None; the module global is never
\* read or written.
get_context(method) ==
    IF method = "None"
    THEN [outcome |-> "UnboundLocalError", context |-> "none"]
    ELSE IF method \notin START_METHODS
    THEN [outcome |-> "ValueError", context |-> "none"]
    ELSE [outcome |-> "return", context |-> method]

GetContext ==
    \E method \in Methods :
        LET r == get_context(method)
        IN  /\ lastCtx' = [op |-> "get_context", args |-> <<method>>,
                           outcome |-> r.outcome, value |-> 0,
                           context |-> r.context,
                           default_before |-> DEFAULT_START_METHOD]
            /\ UNCHANGED <<DEFAULT_START_METHOD, physical_cores_cache, policyVars,
                           trackerVars, threadVars, streamVars, saveVars, moreVars>>

NextContext ==
    \/ CpuCount
    \/ GetContext

SpecContext == Init /\ [][NextContext]_vars

\* C20: get_context(None) with no default start method set returns the loky
\* context without raising, and get_context(m) for m outside START_METHODS
\* raises ValueError.
C20_DefaultContextIsLoky ==
    lastCtx.op = "get_context" =>
        /\ ( lastCtx.args[1] = "None" /\ lastCtx.default_before = "None" ) =>
              lastCtx.outcome = "return" /\ lastCtx.context = "loky"
        /\ ( lastCtx.args[1] # "None" /\ lastCtx.args[1] \notin START_METHODS ) =>
              lastCtx.outcome = "ValueError"

\* ------------------------------------------- numpy_pickle_compat.py: z-files
\* Bytes are numbers.  _ZFILE_PREFIX is b'ZF' (imported at line 7); _MAX_LEN is
\* len(hex_str(2 ** 64)) = 17 (line 14); _CHUNK_SIZE (line 15, 64 * 1024) is
\* scaled down so that data of a few bytes spans several chunks.
ZFILE_PREFIX == <<90, 70>>
MAX_LEN == 17
CHUNK_SIZE == 2
MaxData == 5
DataBytes == {0, 1}
ZData == UNION { [1..n -> DataBytes] : n \in 0..MaxData }

\* The digit of a value below 16 as an ASCII byte ('0'-'9', 'a'-'f'), and the
\* value of an ASCII byte that is a hexadecimal digit.
HexDigit(v) == IF v < 10 THEN 48 + v ELSE 87 + v
IsHexDigit(b) == b \in (48..57) \cup (97..102) \cup (65..70)
HexDigitValue(b) == IF b \in 48..57 THEN b - 48 ELSE IF b \in 97..102 THEN b - 87 ELSE b - 55

\* hex_str(an_int), numpy_pickle_compat.py:11-13: hex(an_int)[2:].
RECURSIVE hex_str(_)
hex_str(an_int) ==
    IF an_int < 16 THEN <<HexDigit(an_int)>>
    ELSE Append(hex_str(an_int \div 16), HexDigit(an_int % 16))

\* str.zfill(width): zeros ('0') on the left up to the width.
RECURSIVE zfill(_, _)
zfill(s, width) == IF Len(s) >= width THEN s ELSE zfill(<<48>> \o s, width)

\* int(length, 16) of a byte string of hexadecimal digits.  Values from
\* HugeLength on are not told apart: no data of the model is that long.
HugeLength == 4096
RECURSIVE int16(_, _)
int16(s, acc) ==
    IF s = << >> THEN acc
    ELSE int16(Tail(s), IF acc * 16 + HexDigitValue(Head(s)) >= HugeLength
                        THEN HugeLength
                        ELSE acc * 16 + HexDigitValue(Head(s)))

\* zlib (the standard library's, no code of this repository) by its contract
\* as a stream codec: whatever the chunks the data is fed in, compress() and
\* flush() emit one stream, and that stream, fed to decompress() in chunks of
\* any size, gives the data back.  The stream is modelled as a header byte,
\* one byte per data byte and an end byte; the compressor emits the header
\* with its first output, and a decompressor that has been fed nothing gives
\* nothing.  What zlib makes of a stream it did not write depends on the bit
\* layout of deflate, which this codec does not keep: the decompressor is
\* defined on the streams of the compressor only, and no file of the model
\* holds another payload.
ZHeader == 120
ZEnd == 9
ZEnc(b) == b + 2
ZEncoded == { ZEnc(b) : b \in DataBytes }
EncodeAll(chunk) == [i \in 1..Len(chunk) |-> ZEnc(chunk[i])]

\* compressor.compress(chunk) and compressor.flush(): the bytes emitted and
\* whether the header has been emitted.
Compress(started, chunk) ==
    [out |-> (IF started THEN << >> ELSE <<ZHeader>>) \o EncodeAll(chunk),
     started |-> TRUE]
CompressFlush(started) == (IF started THEN << >> ELSE <<ZHeader>>) \o <<ZEnd>>

\* decompressor.decompress(chunk): the phase reached ("header", "body" or
\* "done") and the bytes decoded.
RECURSIVE Decompress(_, _, _)
Decompress(phase, chunk, out) ==
    IF chunk = << >> \/ phase = "done" THEN [phase |-> phase, out |-> out]
    ELSE CASE phase = "header" /\ Head(chunk) = ZHeader ->
                Decompress("body", Tail(chunk), out)
           [] phase = "body" /\ Head(chunk) = ZEnd ->
                [phase |-> "done", out |-> out]
           [] phase = "body" /\ Head(chunk) \in ZEncoded ->
                Decompress("body", Tail(chunk), Append(out, Head(chunk) - 2))

\* file_handle.read(n) at position pos: the bytes and the new position.  A
\* handle that stands at or beyond the end reads nothing and stays.
ReadAt(content, pos, n) ==
    LET end == IF pos + n <= Len(content) THEN pos + n
               ELSE IF pos <= Len(content) THEN Len(content) ELSE pos
    IN  [bytes |-> IF pos < Len(content) THEN SubSeq(content, pos + 1, end) ELSE << >>,
         pos |-> end]

\* write_zfile(file_handle, data), numpy_pickle_compat.py:45-63, on an empty
\* file: the loop of lines 57-62 from position pos of data on.
RECURSIVE write_chunks(_, _, _, _)
write_chunks(data, pos, started, written) ==
    LET chunk == SubSeq(data, pos + 1,
                        IF pos + CHUNK_SIZE <= Len(data) THEN pos + CHUNK_SIZE
                        ELSE Len(data))
    IN  IF chunk = << >> THEN written \o CompressFlush(started)
        ELSE write_chunks(data, pos + CHUNK_SIZE, TRUE,
                          written \o Compress(started, chunk).out)
write_zfile(data) ==
    write_chunks(data, 0, FALSE,
                 ZFILE_PREFIX \o zfill(hex_str(Len(data)), MAX_LEN))

\* read_zfile(file_handle), numpy_pickle_compat.py:17-43: the loop of lines
\* 34-38, then the whole function from the position the handle is put at.
RECURSIVE read_chunks(_, _, _, _)
read_chunks(content, pos, phase, data) ==
    LET r == ReadAt(content, pos, CHUNK_SIZE)
    IN  IF r.bytes = << >> THEN [phase |-> phase, data |-> data, pos |-> r.pos]
        ELSE LET d == Decompress(phase, r.bytes, data)
             IN  read_chunks(content, r.pos, d.phase, d.out)

ZResult(outcome, data, length, decompressed, pos) ==
    [outcome |-> outcome, data |-> data, length |-> length,
     decompressed |-> decompressed, pos |-> pos]

read_zfile_from(content, start) ==
    LET header == ReadAt(content, start, Len(ZFILE_PREFIX))
        length == ReadAt(content, header.pos, MAX_LEN)
        body == read_chunks(content, length.pos, "header", << >>)
    IN  IF header.bytes # ZFILE_PREFIX
        THEN ZResult("ValueError: Unknown file type", << >>, 0, << >>, header.pos)
        ELSE IF length.bytes = << >> \/ \E i \in 1..Len(length.bytes) :
                                           ~IsHexDigit(length.bytes[i])
        THEN ZResult("ValueError: invalid literal", << >>, 0, << >>, length.pos)
        ELSE IF Len(body.data) # int16(length.bytes, 0)
        THEN ZResult("ValueError: File corrupted", << >>, int16(length.bytes, 0),
                     body.data, body.pos)
        ELSE ZResult("return", body.data, int16(length.bytes, 0), body.data, body.pos)

read_zfile_without_seek(file_handle) ==
    read_zfile_from(file_handle.content, file_handle.pos)
read_zfile(file_handle) ==
    read_zfile_from(file_handle.content, 0)

\* A caller writes data to a fresh file with write_zfile; the handle is left
\* at the end of what was written.
WriteZfile ==
    /\ lastZ.op = "none"
    /\ \E data \in ZData :
         /\ zfile' = [content |-> write_zfile(data), pos |-> Len(write_zfile(data))]
         /\ lastZ' = [op |-> "write", data |-> data, intact |-> TRUE]
    /\ UNCHANGED <<trackerVars, threadVars, policyVars, streamVars, contextVars,
                   saveVars, hashVars, filterVars, extractVars, picklerVars>>

\* The caller moves the handle in the file it wrote: to its start, into the
\* prefix, to the length field, to the payload, into the payload or to the end.
SeekPositions(content) ==
    {0, 1, Len(ZFILE_PREFIX), Len(ZFILE_PREFIX) + MAX_LEN,
     Len(ZFILE_PREFIX) + MAX_LEN + 1, Len(content)}
SeekZfile ==
    /\ lastZ.op = "write"
    /\ \E p \in SeekPositions(zfile.content) :
         /\ p # zfile.pos
         /\ zfile' = [zfile EXCEPT !.pos = p]
    /\ UNCHANGED <<lastZ, trackerVars, threadVars, policyVars, streamVars,
                   contextVars, saveVars, hashVars, filterVars, extractVars,
                   picklerVars>>

\* Something else than write_zfile changes what read_zfile itself parses,
\* the prefix and the length field: one of their bytes is overwritten ('0',
\* '4' or 'g'), or the file is cut short within them or right after them, so
\* that no payload is left.  The payload, when there is one, is the stream
\* write_zfile wrote.  The handle keeps its position in both cases: after a
\* cut it may stand beyond the end of the file.
HeaderLen == Len(ZFILE_PREFIX) + MAX_LEN
DamageBytes == {48, 52, 103}
DamageZfile ==
    /\ lastZ.op = "write"
    /\ \/ \E i \in 1..HeaderLen, b \in DamageBytes :
            /\ zfile.content[i] # b
            /\ zfile' = [zfile EXCEPT !.content = [zfile.content EXCEPT ![i] = b]]
       \/ \E n \in 0..HeaderLen :
            zfile' = [zfile EXCEPT !.content = SubSeq(zfile.content, 1, n)]
    /\ lastZ' = [lastZ EXCEPT !.op = "damage", !.intact = FALSE]
    /\ UNCHANGED <<trackerVars, threadVars, policyVars, streamVars, contextVars,
                   saveVars, hashVars, filterVars, extractVars, picklerVars>>

\* read_zfile(file_handle) on the file as it is.
ReadZfile ==
    /\ lastZ.op \in {"write", "damage"}
    /\ LET r == read_zfile(zfile)
       IN  /\ zfile' = [zfile EXCEPT !.pos = r.pos]
           /\ lastZ' = [op |-> "read", data |-> lastZ.data, intact |-> lastZ.intact,
                        before |-> zfile.pos, result |-> r]
    /\ UNCHANGED <<trackerVars, threadVars, policyVars, streamVars, contextVars,
                   saveVars, hashVars, filterVars, extractVars, picklerVars>>

NextZfile == WriteZfile \/ SeekZfile \/ DamageZfile \/ ReadZfile
SpecZfile == Init /\ [][NextZfile]_vars

\* C21: read_zfile gives back the data write_zfile wrote, whatever the length
\* of the data and wherever the handle stood; a file whose first bytes are not
\* _ZFILE_PREFIX raises ValueError 'Unknown file type'; a file with the
\* prefix and a hexadecimal length field raises ValueError 'File corrupted'
\* when the length its payload decompresses to (that of the data written, or
\* 0 when no payload is left) is not the length the field states, and
\* otherwise returns what the payload decompresses to.
C21_ZfileRoundTrip ==
    lastZ.op = "read" =>
      LET prefix == ReadAt(zfile.content, 0, Len(ZFILE_PREFIX)).bytes
          field == ReadAt(zfile.content, Len(ZFILE_PREFIX), MAX_LEN).bytes
          payload == IF Len(zfile.content) > HeaderLen THEN lastZ.data ELSE << >>
      IN  /\ lastZ.intact =>
               /\ lastZ.result.outcome = "return"
               /\ lastZ.result.data = lastZ.data
          /\ prefix # ZFILE_PREFIX =>
               lastZ.result.outcome = "ValueError: Unknown file type"
          /\ ( /\ prefix = ZFILE_PREFIX
               /\ field # << >>
               /\ \A i \in 1..Len(field) : IsHexDigit(field[i]) ) =>
               IF Len(payload) # int16(field, 0)
               THEN lastZ.result.outcome = "ValueError: File corrupted"
               ELSE /\ lastZ.result.outcome = "return"
                    /\ lastZ.result.data = payload

\* A file whose length field was overwritten, so that it states another
\* length than the payload decompresses to, was refused as corrupted.
C21_CorruptedSeen ==
    /\ lastZ.op = "read"
    /\ ~lastZ.intact
    /\ Len(zfile.content) > HeaderLen
    /\ lastZ.result.outcome = "ValueError: File corrupted"

C21_Witness ==
    /\ lastZ.op = "read"
    /\ lastZ.intact
    /\ Len(lastZ.data) > 2 * CHUNK_SIZE
    /\ lastZ.before \notin {0, Len(zfile.content)}
    /\ lastZ.result.data = lastZ.data

\* ------------------------------------------------------- hashing.py: hash
\* Objects given to hash(): integers, sets (a set object is its elements in
\* the order the object iterates them) and globals (a builtin and a class).
MaxElem == 2
MaxAddress == 2
HashInt(v) == [kind |-> "int", v |-> v, items |-> << >>, name |-> "None"]
HashSet(items) == [kind |-> "set", v |-> 0, items |-> items, name |-> "None"]
HashGlobal(name) == [kind |-> "global", v |-> 0, items |-> << >>, name |-> name]
SetOrders ==
    { s \in UNION { [1..n -> 1..MaxElem] : n \in 0..MaxElem } :
        \A i, j \in 1..Len(s) : i # j => s[i] # s[j] }
HashObjects ==
    { HashInt(v) : v \in 1..MaxElem } \cup { HashSet(s) : s \in SetOrders }
      \cup { HashGlobal(n) : n \in {"len", "object"} }
Elements(s) == { s[i] : i \in 1..Len(s) }

\* sorted(sequence).
RECURSIVE Insert(_, _)
Insert(sorted, e) ==
    IF sorted = << >> THEN <<e>>
    ELSE IF e <= Head(sorted) THEN <<e>> \o sorted
    ELSE <<Head(sorted)>> \o Insert(Tail(sorted), e)
RECURSIVE Sorted(_)
Sorted(s) == IF s = << >> THEN << >> ELSE Insert(Sorted(Tail(s)), Head(s))

\* _ConsistentSet(set_sequence), hashing.py:14-23: an object with the sorted
\* elements in _sequence, allocated at some address.  The class defines no
\* __repr__ or __str__: str() of it is object's, which names the class and the
\* address and nothing of _sequence.
ConsistentSet(set_sequence, address) ==
    [sequence |-> Sorted(set_sequence), address |-> address]
StrConsistentSet(cs) ==
    <<"<joblib.hashing._ConsistentSet object at ", cs.address, ">">>
\* str(obj) of a global.
StrGlobal(obj) ==
    IF obj.name = "len" THEN <<"<built-in function len>">> ELSE <<"<class 'object'>">>

\* What pickle._Pickler(stream, protocol=3).save(obj) writes for the object,
\* its serialized content, as opcodes with their arguments (the memo's BINPUT
\* bookkeeping left out; save() writes no STOP).  A set is written through
\* its __reduce_ex__ as set(list of its items), the items in the order the
\* set iterates them: one item is appended with APPEND, several between MARK
\* and APPENDS.
RECURSIVE SaveItems(_)
SaveItems(items) ==
    IF items = << >> THEN << >>
    ELSE <<"BININT1", Head(items)>> \o SaveItems(Tail(items))
BatchAppends(items) ==
    IF Len(items) = 0 THEN << >>
    ELSE IF Len(items) = 1 THEN SaveItems(items) \o <<"APPEND">>
    ELSE <<"MARK">> \o SaveItems(items) \o <<"APPENDS">>
GlobalName(obj) == IF obj.name = "len" THEN "builtins len" ELSE "builtins object"
Pickled(obj) ==
    IF obj.kind = "int" THEN <<"BININT1", obj.v>>
    ELSE IF obj.kind = "set"
    THEN <<"GLOBAL", "builtins set", "EMPTY_LIST">> \o BatchAppends(obj.items)
           \o <<"TUPLE1", "REDUCE">>
    ELSE <<"GLOBAL", GlobalName(obj)>>

\* Hasher.save_set(obj), hashing.py:46-48, and Hasher.save_global(obj),
\* hashing.py:42-44: what is passed to self._hash.update.
save_set(obj, address) == StrConsistentSet(ConsistentSet(obj.items, address))
save_global(obj) == StrGlobal(obj)

\* hasher.save(obj), hashing.py:121, for a Hasher made at lines 116-120: the
\* dispatch of lines 50-55 sends a set to save_set and a global to
\* save_global; everything else is pickled by Pickler.save into self.stream
\* (line 37-39), which nothing reads.  The result is the stream and what
\* self._hash was fed.
hasher_save(obj, address) ==
    IF obj.kind = "set" THEN [stream |-> << >>, fed |-> save_set(obj, address)]
    ELSE IF obj.kind = "global" THEN [stream |-> << >>, fed |-> save_global(obj)]
    ELSE [stream |-> Pickled(obj), fed |-> << >>]

\* hashlib's digest of what was fed: injective.
hexdigest(fed) == <<"md5">> \o fed

\* hash(obj), hashing.py:104-122.
hash(obj, address) == hexdigest(hasher_save(obj, address).fed)

NoHashed == [obj |-> HashInt(0), fed |-> << >>, digest |-> << >>, op |-> "none"]
Hashed(op, obj, fed, digest) == [obj |-> obj, fed |-> fed, digest |-> digest, op |-> op]

\* A call of hash(obj); the address of the temporary is the allocator's choice.
HashCall ==
    /\ \E obj \in HashObjects, address \in 1..MaxAddress :
         lastHash' = [op |-> "hash",
                      call |-> Hashed("hash", obj, hasher_save(obj, address).fed,
                                      hash(obj, address)),
                      prev |-> IF lastHash.op = "none" THEN NoHashed ELSE lastHash.call]
    /\ UNCHANGED <<trackerVars, threadVars, policyVars, streamVars, contextVars,
                   saveVars, zVars, filterVars, extractVars, picklerVars>>

\* A call of Hasher().save_set(obj) on a set.
SaveSetCall ==
    /\ \E obj \in { o \in HashObjects : o.kind = "set" }, address \in 1..MaxAddress :
         lastHash' = [op |-> "save_set",
                      call |-> Hashed("save_set", obj, save_set(obj, address),
                                      hexdigest(save_set(obj, address))),
                      prev |-> IF lastHash.op = "none" THEN NoHashed ELSE lastHash.call]
    /\ UNCHANGED <<trackerVars, threadVars, policyVars, streamVars, contextVars,
                   saveVars, zVars, filterVars, extractVars, picklerVars>>

NextHash == HashCall \/ SaveSetCall
SpecHash == Init /\ [][NextHash]_vars

\* Two sets of the same elements: the same value, iterated in any order.
SameSet(a, b) ==
    a.kind = "set" /\ b.kind = "set" /\ Elements(a.items) = Elements(b.items)

\* C22: two objects whose serialized contents differ (two sets of the same
\* elements, which C23 is about, apart) get different digests from hash(),
\* and hashing the same object twice gives the same digest.
C22_DigestTellsContent ==
    (lastHash.op = "hash" /\ lastHash.prev.op = "hash") =>
      /\ ( /\ Pickled(lastHash.call.obj) # Pickled(lastHash.prev.obj)
           /\ ~SameSet(lastHash.call.obj, lastHash.prev.obj) ) =>
           lastHash.call.digest # lastHash.prev.digest
      /\ lastHash.call.obj = lastHash.prev.obj =>
           lastHash.call.digest = lastHash.prev.digest

\* C23: save_set feeds the digest the same bytes for two sets that hold the
\* same elements, whatever the objects and the order of their elements.
C23_SetBytesOrderFree ==
    (lastHash.op = "save_set" /\ lastHash.prev.op = "save_set"
       /\ Elements(lastHash.call.obj.items) = Elements(lastHash.prev.obj.items)) =>
      lastHash.call.fed = lastHash.prev.fed

\* ------------------------------------------------- func_inspect.py: filter_args
\* A function is its argument names and the defaults of its last arguments
\* (inspect.getfullargspec(func).args and .defaults; no defaults is None,
\* here the empty sequence).  A call passes some values positionally and some
\* by keyword.  Values are strings: the value passed for an argument names the
\* argument and the way it was passed; the default of the last argument may
\* also be the string "a".
MaxArgs == 2
ArgNames == <<"a", "b", "c", "d">>
PosValue == [a |-> "pos a", b |-> "pos b", c |-> "pos c", d |-> "pos d"]
KwValue == [a |-> "kw a", b |-> "kw b", c |-> "kw c", d |-> "kw d"]
DefaultValue ==
    [a |-> "default a", b |-> "default b", c |-> "default c", d |-> "default d"]

Defaults(n, k, plain) ==
    [j \in 1..k |-> IF j = k /\ ~plain THEN "a" ELSE DefaultValue[ArgNames[n - k + j]]]
FuncSpec(n, defaults) == [args |-> SubSeq(ArgNames, 1, n), defaults |-> defaults]
FuncSpecs ==
    UNION { { FuncSpec(n, Defaults(n, k, plain)) : k \in 0..n, plain \in BOOLEAN } :
              n \in 1..MaxArgs }

\* The calls: the first npos arguments positionally, the arguments of kw by
\* keyword.
FilterCalls(func) ==
    { [args |-> [i \in 1..npos |-> PosValue[func.args[i]]],
       kwargs |-> [name \in kw |-> KwValue[name]]] :
        npos \in 0..Len(func.args), kw \in SUBSET Elements(func.args) }
IgnoreLists(func) == SUBSET (Elements(func.args) \cup {"*", "**"})

IndexOf(seq, e) == CHOOSE i \in 1..Len(seq) : seq[i] = e
\* Whether argument i of func has a default, and that default.
HasDefault(func, i) == i > Len(func.args) - Len(func.defaults)
DefaultOf(func, i) == func.defaults[Len(func.defaults) - Len(func.args) + i]

\* The call is one Python accepts: no argument passed twice, and every
\* argument passed or defaulted.
ValidCall(func, call) ==
    \A i \in 1..Len(func.args) :
      /\ ~(i <= Len(call.args) /\ func.args[i] \in DOMAIN call.kwargs)
      /\ i <= Len(call.args) \/ func.args[i] \in DOMAIN call.kwargs
           \/ HasDefault(func, i)
\* The value argument i takes in a valid call.
ArgValue(func, call, i) ==
    IF i <= Len(call.args) THEN call.args[i]
    ELSE IF func.args[i] \in DOMAIN call.kwargs THEN call.kwargs[func.args[i]]
    ELSE DefaultOf(func, i)

\* Lines 164-167: the loop over zip(arg_names, args) from pair i on.
RECURSIVE filter_positional(_, _, _, _, _)
filter_positional(arg_names, ignore_lst, args, i, output_args) ==
    IF i > Len(arg_names) \/ i > Len(args) THEN output_args
    ELSE filter_positional(arg_names, ignore_lst, args, i + 1,
                           IF arg_names[i] \notin ignore_lst
                           THEN Append(output_args, args[i]) ELSE output_args)

\* Lines 170-179: the loop over arg_names[len(args):] from argument i on.
\* Line 177 indexes arg_spec.defaults from its end: TypeError when it is None,
\* IndexError when the argument has no default.
RECURSIVE filter_keywords(_, _, _, _, _)
filter_keywords(func, ignore_lst, kwargs, i, output_args) ==
    IF i > Len(func.args) THEN [outcome |-> "return", value |-> output_args]
    ELSE IF func.args[i] \in DOMAIN kwargs
    THEN filter_keywords(func, ignore_lst, kwargs, i + 1,
                         IF func.args[i] \notin ignore_lst
                         THEN Append(output_args, kwargs[func.args[i]])
                         ELSE output_args)
    ELSE IF func.defaults = << >> THEN [outcome |-> "TypeError", value |-> << >>]
    ELSE IF ~HasDefault(func, IndexOf(func.args, func.args[i]))
    THEN [outcome |-> "IndexError", value |-> << >>]
    ELSE filter_keywords(func, ignore_lst, kwargs, i + 1,
                         IF DefaultOf(func, IndexOf(func.args, func.args[i]))
                              \notin ignore_lst
                         THEN Append(output_args,
                                     DefaultOf(func, IndexOf(func.args, func.args[i])))
                         ELSE output_args)

\* filter_args(func, ignore_lst, args, kwargs), func_inspect.py:138-181.
filter_args(func, ignore_lst, args, kwargs) ==
    LET positional == IF "*" \notin ignore_lst
                      THEN filter_positional(func.args, ignore_lst, args, 1, << >>)
                      ELSE << >>
    IN  IF "**" \notin ignore_lst
        THEN filter_keywords(func, ignore_lst, kwargs, Len(args) + 1, positional)
        ELSE [outcome |-> "return", value |-> positional]

FilterArgs ==
    /\ lastFilter = NoFilterCall
    /\ \E func \in FuncSpecs :
         \E call \in FilterCalls(func), ignore_lst \in IgnoreLists(func) :
           lastFilter' = [op |-> "filter_args", func |-> func, call |-> call,
                          ignore_lst |-> ignore_lst,
                          result |-> filter_args(func, ignore_lst, call.args,
                                                 call.kwargs)]
    /\ UNCHANGED <<trackerVars, threadVars, policyVars, streamVars, contextVars,
                   saveVars, zVars, hashVars, extractVars, picklerVars>>

NextFilter == FilterArgs
SpecFilter == Init /\ [][NextFilter]_vars

\* C24: for a valid call filter_args returns, and what it returns holds the
\* value of every argument whose name is not in ignore_lst, however it was
\* passed or defaulted, and the value of no argument whose name is in
\* ignore_lst.
C24_FilterKeepsUnignored ==
    (lastFilter.op = "filter_args" /\ ValidCall(lastFilter.func, lastFilter.call)) =>
      /\ lastFilter.result.outcome = "return"
      /\ \A i \in 1..Len(lastFilter.func.args) :
           (lastFilter.func.args[i] \notin lastFilter.ignore_lst)
             <=> (ArgValue(lastFilter.func, lastFilter.call, i)
                    \in Elements(lastFilter.result.value))

\* ------------------------------------------- what the strategies return
\* C25: a function encoded by value is reconstructed in two ordered phases:
\* the reducer returns a descriptor whose constructor makes the empty shell
\* and whose restore procedure is _function_setstate, so that the shell exists
\* (and is in the backend's memo) before its state is applied.
C25_ShellThenState ==
    ( /\ lastDecide.op = "function_reduce"
      /\ ~lastDecide.obj.is_coroutine
      /\ ~should_pickle_by_reference(lastDecide.obj) ) =>
        lastDecide.result = "shell constructor, state, _function_setstate"

\* C26: after _function_setstate the keys of the function's __globals__ are
\* among the global names captured for it; nothing that was in the namespace
\* before, no instance field and nothing else is placed there.
C26_GlobalsAreCapturedNames ==
    lastDecide.op = "function_setstate" =>
        DOMAIN lastDecide.result.func.globals
          \subseteq DOMAIN lastDecide.obj.state.slotstate.globals

\* The shape of what a strategy of the dispatch layer gives for an object:
\* "declined" (NotImplemented), "raised", "pair" for (constructor, args),
\* or what else it returned: a global name, the sentinel, the cell's contents.
class_reduce_shape(obj) ==
    IF class_reduce(obj) = "NotImplemented" THEN "declined"
    ELSE IF class_reduce(obj) = "name" THEN "global name"
    ELSE "pair"
function_reduce_shape(obj) ==
    IF function_reduce(obj) = "NotImplemented" THEN "declined" ELSE "raised"
cell_reduce_shape(obj) ==
    IF cell_reduce(obj).outcome # "return" THEN "raised"
    ELSE IF cell_reduce(obj).value = "_empty_cell_value" THEN "sentinel"
    ELSE IF cell_reduce(obj).value \in {"(int, ('x',))", "(int, ('5',))"}
    THEN "pair"             \* contents that are themselves (callable, args)
    ELSE "contents"
file_reduce_shape(obj) ==
    IF file_reduce(obj).outcome # "return" THEN "raised" ELSE "pair"

\* One strategy applied to one object of its type.
StrategyReduce ==
    /\ lastDecide.op = "none"
    /\ \/ \E obj \in {o \in Objects : o.kind = "class"} :
            lastDecide' = [op |-> "strategy", obj |-> obj, strategy |-> "_class_reduce",
                           result |-> class_reduce_shape(obj)]
       \/ \E obj \in {o \in Objects : o.kind = "function"} :
            lastDecide' = [op |-> "strategy", obj |-> obj,
                           strategy |-> "_function_reduce",
                           result |-> function_reduce_shape(obj)]
       \/ \E obj \in Cells :
            lastDecide' = [op |-> "strategy", obj |-> obj, strategy |-> "_cell_reduce",
                           result |-> cell_reduce_shape(obj)]
       \/ \E obj \in {s \in Streams : s.pos <= Len(s.content)} :
            lastDecide' = [op |-> "strategy", obj |-> obj, strategy |-> "_file_reduce",
                           result |-> file_reduce_shape(obj)]
    /\ UNCHANGED <<PICKLE_BY_VALUE_MODULES, sys_modules, registered, lastPolicy,
                   prevPolicy, trackerVars, threadVars, otherVars>>

NextStrategy == StrategyReduce
SpecStrategy == InitDecide /\ [][NextStrategy]_vars

\* C27: a strategy that neither declines nor fails returns a reconstruction
\* descriptor: the pair (constructor, arguments), alone or with (state,
\* restore procedure).
C27_StrategiesReturnDescriptors ==
    lastDecide.op = "strategy" =>
        lastDecide.result \in {"declined", "raised", "pair", "pair with state"}

\* ----------------------------------------- cloudpickle.py: global names of code
\* A compiled unit (code object) as _extract_code_globals reads it: co_names,
\* its name-taking instructions, the units among co_consts, and the bytecode
\* format of the interpreter that compiled it.  An instruction has its opname,
\* the position in co_names of the name it works on (argval is that name) and,
\* for LOAD_GLOBAL in the format of CPython 3.11 and later, the flag that
\* shares its arg: there arg is 2 * index + flag, elsewhere arg is the index.
\* Code objects are equal by value, and the cache is keyed by them.
MaxNames == 2
CoNames == <<"a", "b", "c", "d">>
GlobalOps == {"LOAD_GLOBAL", "STORE_GLOBAL", "DELETE_GLOBAL"}
Formats == {"arg is index", "arg is index and flag"}
Instr(opname, namei, push_null) ==
    [opname |-> opname, namei |-> namei, push_null |-> push_null]
Unit(format, names, instrs, consts) ==
    [format |-> format, names |-> names, instrs |-> instrs, consts |-> consts]

\* The units have the first MaxNames names in co_names.  Their instructions:
\* a read of each name, a write of the first, a delete of the last, an
\* attribute access (no global instruction) and, in the format with the flag,
\* a read of the first name with the flag set.
UnitNames == SubSeq(CoNames, 1, MaxNames)
Instrs(format) ==
    { Instr("LOAD_GLOBAL", i, 0) : i \in 1..MaxNames }
      \cup { Instr("STORE_GLOBAL", 1, 0), Instr("DELETE_GLOBAL", MaxNames, 0),
              Instr("LOAD_ATTR", 1, 0) }
      \cup { Instr("LOAD_GLOBAL", 1, f) :
               f \in IF format = "arg is index and flag" THEN {1} ELSE {} }
\* Units without nested units: at most one instruction.
LeafUnits(format) ==
    { Unit(format, UnitNames, is, << >>) :
        is \in {<< >>} \cup { <<i>> : i \in Instrs(format) } }
\* Units that nest one unit, and units that nest one of those.
NestingUnits(format) ==
    { Unit(format, UnitNames, is, <<Unit(format, UnitNames, <<c>>, << >>)>>) :
        is \in {<< >>, <<Instr("LOAD_GLOBAL", 1, 0)>>},
        c \in {Instr("LOAD_GLOBAL", MaxNames, 0), Instr("DELETE_GLOBAL", MaxNames, 0)} }
DeepUnits(format) ==
    { Unit(format, UnitNames, << >>, <<c>>) :
        c \in { u \in NestingUnits(format) :
                  u.instrs # << >> /\ u.consts[1].instrs[1].opname = "DELETE_GLOBAL" } }
Units ==
    UNION { LeafUnits(f) \cup NestingUnits(f) \cup DeepUnits(f) : f \in Formats }

\* instr.arg as dis.get_instructions gives it (counted from 0).
InstrArg(co, instr) ==
    IF instr.opname = "LOAD_GLOBAL" /\ co.format = "arg is index and flag"
    THEN 2 * (instr.namei - 1) + instr.push_null
    ELSE instr.namei - 1

\* The names that are operands of the global instructions of the unit and of
\* the units nested in it, at any depth.
RECURSIVE GlobalOperands(_)
GlobalOperands(co) ==
    { co.names[co.instrs[i].namei] :
        i \in { j \in 1..Len(co.instrs) : co.instrs[j].opname \in GlobalOps } }
      \cup UNION { GlobalOperands(co.consts[i]) : i \in 1..Len(co.consts) }

\* _walk_global_ops(code), cloudpickle.py:271-276: the instructions whose
\* opcode is in GLOBAL_OPS, in order.
IsGlobalOp(instr) == instr.opname \in GlobalOps
walk_global_ops(code) == SelectSeq(code.instrs, IsGlobalOp)

\* Lines 190-196: the loop over the instructions from the i-th on; line 196
\* indexes co.co_names with instr.arg and raises IndexError beyond its end.
RECURSIVE extract_own_names(_, _, _, _)
extract_own_names(co, ops, i, out_names) ==
    IF i > Len(ops) THEN [outcome |-> "return", value |-> out_names]
    ELSE IF InstrArg(co, ops[i]) + 1 > Len(co.names)
    THEN [outcome |-> "IndexError", value |-> {}]
    ELSE extract_own_names(co, ops, i + 1,
                           out_names \cup {co.names[InstrArg(co, ops[i]) + 1]})

\* Line 204: the set is stored under the unit.
cache_store(cache, co, out_names) == Put(cache, co, out_names)

\* _extract_code_globals(co), cloudpickle.py:185-205, as a whole call that
\* nothing comes inside of, with the cache it finds and leaves;
\* extract_consts is the loop of lines 199-202 from the i-th constant on.
RECURSIVE extract_code_globals(_, _)
RECURSIVE extract_consts(_, _, _, _)
extract_consts(co, i, out_names, cache) ==
    IF i > Len(co.consts)
    THEN [outcome |-> "return", value |-> out_names,
          cache |-> cache_store(cache, co, out_names)]
    ELSE LET nested == extract_code_globals(co.consts[i], cache)
         IN  IF nested.outcome # "return" THEN nested
             ELSE extract_consts(co, i + 1, out_names \cup nested.value, nested.cache)
extract_code_globals(co, cache) ==
    IF co \in DOMAIN cache
    THEN [outcome |-> "return", value |-> cache[co], cache |-> cache]
    ELSE LET own == extract_own_names(co, walk_global_ops(co), 1, {})
         IN  IF own.outcome # "return"
             THEN [outcome |-> own.outcome, value |-> {}, cache |-> cache]
             ELSE extract_consts(co, 1, own.value, cache)

\* A unit and the units nested in it, at any depth.
RECURSIVE UnitsIn(_)
UnitsIn(co) == {co} \cup UNION { UnitsIn(co.consts[i]) : i \in 1..Len(co.consts) }

\* _extract_code_globals(co) line by line, with the frames of its recursion
\* (line 202).  The function takes no lock; between two of its lines another
\* thread, or the collector, may let the key object of an entry go
\* (CollectUnit).  A frame is at "check" (line 187), at "lookup" (line 188) or
\* at "consts" (the loop of lines 199-202, before its i-th constant), with
\* the out_names it has so far.
Frame(co, at, i, out_names) == [co |-> co, at |-> at, i |-> i, out_names |-> out_names]
TopFrame == extract_frames[Len(extract_frames)]
SetTopFrame(frame) == [extract_frames EXCEPT ![Len(extract_frames)] = frame]

\* The innermost call ends.  An exception unwinds every frame (no line
\* catches it); a value goes to the loop of the calling frame (line 202) or,
\* from the outermost frame, to the caller.
ExtractEnds(outcome, value) ==
    IF outcome # "return" \/ Len(extract_frames) = 1
    THEN /\ extract_frames' = << >>
         /\ lastExtract' = [op |-> "extract", co |-> lastExtract.co,
                            before |-> lastExtract.before,
                            outcome |-> outcome, value |-> value]
    ELSE /\ extract_frames' =
              [SubSeq(extract_frames, 1, Len(extract_frames) - 1)
                 EXCEPT ![Len(extract_frames) - 1] =
                          [@ EXCEPT !.out_names = @ \cup value, !.i = @ + 1]]
         /\ lastExtract' = lastExtract

\* A call of _extract_code_globals(co) starts.  The units of a process are
\* compiled by one interpreter, so the cache holds units of one format;
\* MaxCached bounds the number of units the cache may come to hold.
MaxCached == 3
ExtractCall ==
    /\ extract_frames = << >>
    /\ \E co \in Units :
         /\ \A k \in DOMAIN extract_code_globals_cache : k.format = co.format
         /\ Cardinality(DOMAIN extract_code_globals_cache \cup UnitsIn(co)) <= MaxCached
         /\ extract_frames' = <<Frame(co, "check", 1, {})>>
         /\ lastExtract' = [op |-> "call", co |-> co,
                            before |-> extract_code_globals_cache, stored |-> {}]
    /\ UNCHANGED extract_code_globals_cache
    /\ UNCHANGED <<trackerVars, threadVars, policyVars, streamVars, contextVars,
                   saveVars, zVars, hashVars, filterVars, picklerVars>>

\* Line 187: the test of the unit against the cache; when it answers False,
\* lines 190-196, which read the unit only.
ExtractCheck ==
    /\ extract_frames # << >>
    /\ TopFrame.at = "check"
    /\ IF TopFrame.co \in DOMAIN extract_code_globals_cache
       THEN /\ extract_frames' = SetTopFrame([TopFrame EXCEPT !.at = "lookup"])
            /\ lastExtract' = lastExtract
       ELSE LET own == extract_own_names(TopFrame.co, walk_global_ops(TopFrame.co), 1, {})
            IN  IF own.outcome # "return" THEN ExtractEnds(own.outcome, {})
                ELSE /\ extract_frames' =
                          SetTopFrame([TopFrame EXCEPT !.at = "consts",
                                                       !.out_names = own.value])
                     /\ lastExtract' = lastExtract
    /\ UNCHANGED extract_code_globals_cache
    /\ UNCHANGED <<trackerVars, threadVars, policyVars, streamVars, contextVars,
                   saveVars, zVars, hashVars, filterVars, picklerVars>>

\* Line 188: the read of the entry; KeyError when its key object went since
\* the test.
ExtractLookup ==
    /\ extract_frames # << >>
    /\ TopFrame.at = "lookup"
    /\ IF TopFrame.co \in DOMAIN extract_code_globals_cache
       THEN ExtractEnds("return", extract_code_globals_cache[TopFrame.co])
       ELSE ExtractEnds("KeyError", {})
    /\ UNCHANGED extract_code_globals_cache
    /\ UNCHANGED <<trackerVars, threadVars, policyVars, streamVars, contextVars,
                   saveVars, zVars, hashVars, filterVars, picklerVars>>

\* Lines 199-202: the call for the next nested unit.
ExtractConsts ==
    /\ extract_frames # << >>
    /\ TopFrame.at = "consts"
    /\ TopFrame.i <= Len(TopFrame.co.consts)
    /\ extract_frames' = Append(extract_frames,
                                Frame(TopFrame.co.consts[TopFrame.i], "check", 1, {}))
    /\ UNCHANGED <<extract_code_globals_cache, lastExtract>>
    /\ UNCHANGED <<trackerVars, threadVars, policyVars, streamVars, contextVars,
                   saveVars, zVars, hashVars, filterVars, picklerVars>>

\* Lines 204-205: the set is stored under the unit and returned.  The key of
\* the new entry is the unit of this call, which the caller holds.
ExtractStore ==
    /\ extract_frames # << >>
    /\ TopFrame.at = "consts"
    /\ TopFrame.i > Len(TopFrame.co.consts)
    /\ extract_code_globals_cache' =
         cache_store(extract_code_globals_cache, TopFrame.co, TopFrame.out_names)
    /\ IF Len(extract_frames) = 1
       THEN ExtractEnds("return", TopFrame.out_names)
       ELSE /\ extract_frames' =
                 [SubSeq(extract_frames, 1, Len(extract_frames) - 1)
                    EXCEPT ![Len(extract_frames) - 1] =
                             [@ EXCEPT !.out_names = @ \cup TopFrame.out_names,
                                       !.i = @ + 1]]
            /\ lastExtract' = [lastExtract EXCEPT !.stored = @ \cup {TopFrame.co}]
    /\ UNCHANGED <<trackerVars, threadVars, policyVars, streamVars, contextVars,
                   saveVars, zVars, hashVars, filterVars, picklerVars>>

\* The cache is a weakref.WeakKeyDictionary (line 85): the entry of a unit
\* goes away when the code object it is keyed by is garbage collected, between
\* two calls or between two lines of one.  The entries the call under way has
\* stored are keyed by units its argument holds, and stay.
CollectUnit ==
    /\ \E co \in DOMAIN extract_code_globals_cache :
         /\ extract_frames # << >> => co \notin lastExtract.stored
         /\ extract_code_globals_cache' = Drop(extract_code_globals_cache, {co})
    /\ lastExtract' = IF extract_frames = << >> THEN [op |-> "collect"] ELSE lastExtract
    /\ UNCHANGED extract_frames
    /\ UNCHANGED <<trackerVars, threadVars, policyVars, streamVars, contextVars,
                   saveVars, zVars, hashVars, filterVars, picklerVars>>

NextExtract ==
    \/ ExtractCall
    \/ ExtractCheck
    \/ ExtractLookup
    \/ ExtractConsts
    \/ ExtractStore
    \/ CollectUnit
SpecExtract == Init /\ [][NextExtract]_vars

\* C28: _extract_code_globals returns exactly the names that are operands of
\* a read-, write- or delete-global instruction of the unit or of a unit
\* nested in it at any depth.
C28_ExactlyGlobalOperands ==
    lastExtract.op = "extract" =>
      /\ lastExtract.outcome = "return"
      /\ lastExtract.value = GlobalOperands(lastExtract.co)

\* C29: the memo is stable: a call for a unit whose set is stored returns the
\* stored set, a call for any unit returns what a call with an empty memo
\* returns, and a call changes no entry that was stored before it.
C29_MemoStable ==
    lastExtract.op = "extract" =>
      /\ lastExtract.co \in DOMAIN lastExtract.before =>
           /\ lastExtract.outcome = "return"
           /\ lastExtract.value = lastExtract.before[lastExtract.co]
      /\ lastExtract.outcome = extract_code_globals(lastExtract.co, EmptyMap).outcome
      /\ lastExtract.value = extract_code_globals(lastExtract.co, EmptyMap).value
      /\ \A k \in DOMAIN lastExtract.before \cap DOMAIN extract_code_globals_cache :
           extract_code_globals_cache[k] = lastExtract.before[k]

\* ------------------------------------------------ reduction.py: the loky pickler
\* The values callers pass: None, the two supported names and others.
PicklerArgs == {"None", "pickle", "cloudpickle", "dill", "Pickle", ""}

\* set_loky_pickler(loky_pickler), reduction.py:58-86, on the globals
\* (_LokyPickler, _loky_pickler_name): the outcome and the globals it leaves.
\* importable says whether the import of CloudPickler at line 80 succeeds.
PicklerState(outcome, class, name) == [outcome |-> outcome, class |-> class, name |-> name]
Effective(loky_pickler, env) == IF loky_pickler = "None" THEN env ELSE loky_pickler
set_loky_pickler_naming_first(loky_pickler, env, class, name, importable) ==
    IF Effective(loky_pickler, env) = name THEN PicklerState("return", class, name)
    ELSE IF Effective(loky_pickler, env) = "pickle"
    THEN PicklerState("return", "Pickler", "pickle")
    ELSE IF Effective(loky_pickler, env) = "cloudpickle"
    THEN IF importable THEN PicklerState("return", "CloudPickler", "cloudpickle")
         ELSE PicklerState("ImportError", class, Effective(loky_pickler, env))
    ELSE PicklerState("ValueError", class, Effective(loky_pickler, env))
set_loky_pickler(loky_pickler, env, class, name, importable) ==
    IF Effective(loky_pickler, env) = name THEN PicklerState("return", class, name)
    ELSE IF Effective(loky_pickler, env) = "pickle"
    THEN PicklerState("return", "Pickler", "pickle")
    ELSE IF Effective(loky_pickler, env) = "cloudpickle"
    THEN IF importable THEN PicklerState("return", "CloudPickler", "cloudpickle")
         ELSE PicklerState("ImportError", class, name)
    ELSE PicklerState("ValueError", class, name)

SetLokyPickler ==
    /\ \E loky_pickler \in PicklerArgs, importable \in BOOLEAN :
         LET r == set_loky_pickler(loky_pickler, ENV_LOKY_PICKLER, LokyPickler,
                                   loky_pickler_name, importable)
         IN  /\ LokyPickler' = r.class
             /\ loky_pickler_name' = r.name
             /\ lastPickler' = [op |-> "set", loky_pickler |-> loky_pickler,
                                importable |-> importable,
                                class |-> LokyPickler, name |-> loky_pickler_name,
                                outcome |-> r.outcome]
    /\ UNCHANGED <<ENV_LOKY_PICKLER, trackerVars, threadVars, policyVars, streamVars,
                   contextVars, saveVars, zVars, hashVars, filterVars, extractVars>>

\* The module as lines 48-55 leave it, for any value of LOKY_PICKLER.  The
\* call of line 56 comes before the definition of line 58 and raises
\* NameError: it changes nothing.
InitPickler ==
    /\ TrackerInit /\ ThreadsIdle /\ PolicyIdle
    /\ StreamIdle /\ ContextInit /\ SaveIdle
    /\ ZIdle /\ HashIdle /\ FilterIdle /\ ExtractInit
    /\ PicklerUnset /\ ENV_LOKY_PICKLER \in EnvPicklers

NextPickler == SetLokyPickler
SpecPickler == InitPickler /\ [][NextPickler]_vars

\* C30: after any calls of set_loky_pickler the selected class and the
\* recorded name agree (Pickler with 'pickle', CloudPickler with
\* 'cloudpickle', or both unset); a call with a value that is neither raises
\* ValueError and changes neither; a call with None does what a call with the
\* value of ENV_LOKY_PICKLER does, and a call that returns leaves the name
\* asked for recorded.
C30_PicklerAndNameAgree ==
    /\ <<LokyPickler, loky_pickler_name>> \in
         {<<"None", "None">>, <<"Pickler", "pickle">>, <<"CloudPickler", "cloudpickle">>}
    /\ lastPickler.op = "set" =>
         LET asked == Effective(lastPickler.loky_pickler, ENV_LOKY_PICKLER)
         IN  /\ asked \notin {"pickle", "cloudpickle"} =>
                  /\ lastPickler.outcome = "ValueError"
                  /\ LokyPickler = lastPickler.class
                  /\ loky_pickler_name = lastPickler.name
             /\ lastPickler.outcome = "return" => loky_pickler_name = asked
             /\ lastPickler.outcome # "return" =>
                  /\ LokyPickler = lastPickler.class
                  /\ loky_pickler_name = lastPickler.name

C30_Witness ==
    /\ lastPickler.op = "set"
    /\ lastPickler.loky_pickler = "None"
    /\ ENV_LOKY_PICKLER = "cloudpickle"
    /\ lastPickler.name = "pickle"
    /\ lastPickler.outcome = "return"
    /\ LokyPickler = "CloudPickler"
    /\ loky_pickler_name = "cloudpickle"

\* ------------------------------------------------- the encoders together
NextEncode ==
    \/ CellRoundTrip
    \/ FunctionReduce
    \/ FunctionsRoundTrip
    \/ FunctionSetstate

SpecEncode == InitDecide /\ [][NextEncode]_vars

====
